---- MODULE Spec2Model ----
(***************************************************************************)
(* Model of the network analysis of the Doppelganger Tracker               *)
(* (src/analyzers/network_analyzer.py): the propagation store it reads,    *)
(* the two graphs a NetworkAnalyzer instance owns, and its operations.     *)
(*                                                                         *)
(* Conventions.  Identifiers are the UUID strings of the store             *)
(* (UUID(as_uuid=False)), so str(id) is the id itself.  An Optional number *)
(* is <<>> for None and <<n>> for the number n.  Similarity scores are in  *)
(* tenths (5 is 0.5), times of propagation rows in days, publication times *)
(* of content in seconds.  The collectors (src/collectors) write the      *)
(* content rows of the same store through a session of their own, and      *)
(* src/utils/async_helpers.py keeps the global thread pool.                *)
(***************************************************************************)
EXTENDS Integers, Sequences, FiniteSets, TLC

VARIABLES
    sources,        \* store: Source rows, by id
    contents,       \* store: Content rows, by id
    propagations,   \* store: Propagation rows, in the order a query returns them
    content_graph,  \* NetworkAnalyzer.content_graph
    source_graph,   \* NetworkAnalyzer.source_graph
    ret,            \* the last call on the instance: [op, arg, val, exc]
    instances,      \* further instances, for concurrent runs: their graphs
    threads,        \* the threads of concurrent runs: their place and locals
    collector,      \* a collector: its session, its run, its counters and errors
    pool            \* the globals of utils/async_helpers.py

vars == <<sources, contents, propagations, content_graph, source_graph, ret,
          instances, threads, collector, pool>>

store == <<sources, contents, propagations>>

-----------------------------------------------------------------------------
(* Bounds of the model *)

MaxLinks == 2          \* propagation rows in the store

SourceIds == {"s1", "s2", "s3"}

ContentIds == {"c1", "c2", "c3"}

\* datetime.utcnow() of the calls, in days
Now == 40

\* created_at of a propagation row: an old one and a recent one
CreatedAtValues == {5, 39}

\* days_back arguments: the default and a one that covers every row
DaysBackValues == {30, 36}

\* similarity_score values in tenths, and the thresholds tried
SimilarityValues == {0, 3, 5}

MinSimilarityValues == {3, 5}

-----------------------------------------------------------------------------
(* Python values *)

None == "None"

\* Optional[number]: None is <<>>, the number n is <<n>>
NoNum == <<>>

Num(n) == <<n>>

\* bool(x) for an Optional number: None and 0 are falsy
TruthyNum(x) == x /= NoNum /\ x[1] /= 0

\* x or 0
NumOrZero(x) == IF TruthyNum(x) THEN x[1] ELSE 0

\* bool(x) for an Optional[str] id
TruthyId(x) == x /= None /\ x /= ""

EmptyDict == [k \in {} |-> TRUE]

\* min(a, b)
Min(a, b) == IF a < b THEN a ELSE b

\* dict.update
DictUpdate(d, e) ==
    [k \in (DOMAIN d) \cup (DOMAIN e) |-> IF k \in DOMAIN e THEN e[k] ELSE d[k]]

-----------------------------------------------------------------------------
(* Calls on the instance are made one at a time from one thread: a call    *)
(* leaves its arguments and its result in ret, and the caller takes the    *)
(* result before the next call                                             *)

NoCall == [op |-> "none", arg |-> EmptyDict, val |-> EmptyDict, exc |-> None]

\* How a call ends: with a value, or with an exception that leaves it
Ok(v) == [val |-> v, exc |-> None]

Exc(e) == [val |-> EmptyDict, exc |-> e]

Call(op, arg, result) == [op |-> op, arg |-> arg, val |-> result.val, exc |-> result.exc]

Idle == ret.op = "none"

Return ==
    /\ ~Idle
    /\ ret' = NoCall
    /\ UNCHANGED <<sources, contents, propagations, content_graph, source_graph,
                   instances, threads, collector, pool>>

\* A session that deletes what it has read
RowsDropped(rows) == <<>>

\* The rows of a table after a call: the calls only run Query(...).all() on
\* the session; they add, change and delete no row and commit nothing
RowsAfterCall(rows) == rows

StoreRead ==
    /\ sources' = RowsAfterCall(sources)
    /\ contents' = RowsAfterCall(contents)
    /\ propagations' = RowsAfterCall(propagations)

\* What a call leaves alone besides the graphs of its instance: the store
\* and the concurrent runs on other instances
ReadOnlyStore == StoreRead /\ UNCHANGED <<instances, threads, collector, pool>>

-----------------------------------------------------------------------------
(* networkx.DiGraph: node |-> attribute dict, <<u, v>> |-> attribute dict, *)
(* and the nodes in insertion order, which is the order graph.nodes()      *)
(* iterates in                                                             *)

\* DiGraph()
EmptyGraph == [node |-> EmptyDict, edge |-> EmptyDict, order |-> <<>>, directed |-> TRUE]

\* A clear() that leaves the graph as it is
Kept(g) == g

\* DiGraph.clear(): no node and no edge is left
Clear(g) == [node |-> EmptyDict, edge |-> EmptyDict, order |-> <<>>, directed |-> g.directed]

Nodes(g) == DOMAIN g.node

Edges(g) == DOMAIN g.edge

NumberOfNodes(g) == Cardinality(Nodes(g))

NumberOfEdges(g) == Cardinality(Edges(g))

\* DiGraph.add_node(n, **attrs): a new node, or an update of its attributes
AddNode(g, n, attrs) ==
    [node |-> [m \in Nodes(g) \cup {n} |->
                    IF m = n
                    THEN DictUpdate(IF n \in Nodes(g) THEN g.node[n] ELSE EmptyDict, attrs)
                    ELSE g.node[m]],
     edge |-> g.edge,
     order |-> IF n \in Nodes(g) THEN g.order ELSE Append(g.order, n),
     directed |-> g.directed]

\* DiGraph.add_edge(u, v, **attrs): missing endpoints become nodes without
\* attributes (u first); an existing edge has its attributes updated
AddEdge(g, u, v, attrs) ==
    LET gu == IF u \in Nodes(g) THEN g ELSE AddNode(g, u, EmptyDict)
        gv == IF v \in Nodes(gu) THEN gu ELSE AddNode(gu, v, EmptyDict)
    IN  [node |-> gv.node,
         edge |-> [e \in Edges(g) \cup {<<u, v>>} |->
                        IF e = <<u, v>>
                        THEN DictUpdate(IF e \in Edges(g) THEN g.edge[e] ELSE EmptyDict, attrs)
                        ELSE g.edge[e]],
         order |-> gv.order,
         directed |-> g.directed]

\* The place of the node n in the iteration order of g
OrderIndex(g, n) == CHOOSE i \in DOMAIN g.order : g.order[i] = n

\* DiGraph.to_undirected(): every edge in both directions; of two opposite
\* edges the one added last, which leaves the later node, gives the attributes
ToUndirected(g) ==
    [node |-> g.node,
     edge |-> [e \in Edges(g) \cup {<<d[2], d[1]>> : d \in Edges(g)} |->
                  LET rev == <<e[2], e[1]>>
                  IN  IF e \notin Edges(g) THEN g.edge[rev]
                      ELSE IF rev \notin Edges(g) THEN g.edge[e]
                      ELSE IF OrderIndex(g, e[1]) >= OrderIndex(g, e[2]) THEN g.edge[e]
                      ELSE g.edge[rev]],
     order |-> g.order,
     directed |-> FALSE]

\* DiGraph.out_degree(n): the number of edges leaving n (a self-loop is one)
OutDegree(g, n) == Cardinality({e \in Edges(g) : e[1] = n})

-----------------------------------------------------------------------------
(* The store *)

\* Display attributes of the source rows (fixed per id in this model)
SourceName(id) == IF id = "s1" THEN "Source 1" ELSE IF id = "s2" THEN "Source 2" ELSE "Source 3"

SourceType(id) == IF id = "s1" THEN "telegram" ELSE "media"

SourceLanguage(id) == IF id = "s2" THEN None ELSE "ru"

SourceRow(id, active) ==
    [id |-> id, name |-> SourceName(id), source_type |-> SourceType(id),
     language |-> SourceLanguage(id), is_doppelganger |-> (id = "s1"),
     is_amplifier |-> (id = "s3"), is_active |-> active]

ContentRow(id, owner, published) ==
    [id |-> id, source_id |-> owner, published_at |-> published]

PropagationTypes == <<"forward", "quote", "repost", "similar">>

\* The i-th propagation row; its type, mutation flag and time delta are
\* fixed by i so that two rows of one content pair differ
PropagationRow(i, src, tgt, sim, created) ==
    [id |-> i, source_content_id |-> src, target_content_id |-> tgt,
     propagation_type |-> PropagationTypes[((i - 1) % 4) + 1],
     similarity_score |-> sim,
     mutation_detected |-> (i % 2 = 0),
     time_delta_seconds |-> IF i = 1 THEN NoNum ELSE Num(60 * i),
     created_at |-> created]

\* Propagation.source_content / target_content: the content row of the id
ContentOf(id) == contents[id]

\* A query without the filter on created_at
FilterSinceNoCutoff(rows, cutoff) == rows

\* Query(Propagation).filter(Propagation.created_at >= cutoff_date).all()
RECURSIVE FilterSince(_, _)
FilterSince(rows, cutoff) ==
    IF rows = <<>> THEN <<>>
    ELSE LET rest == FilterSince(Tail(rows), cutoff)
         IN  IF Head(rows).created_at >= cutoff THEN <<Head(rows)>> \o rest ELSE rest

PropagationsSince(days_back) == FilterSince(propagations, Now - days_back)

\* Query(Source).filter(Source.is_active == True).all()
RECURSIVE FilterActive(_)
FilterActive(rows) ==
    IF rows = <<>> THEN <<>>
    ELSE LET rest == FilterActive(Tail(rows))
         IN  IF Head(rows).is_active THEN <<Head(rows)>> \o rest ELSE rest

ActiveSources == FilterActive(sources)

-----------------------------------------------------------------------------
(* build_content_graph *)

\* The test of the loop: the row is skipped
BelowThreshold(prop, min_similarity) ==
    TruthyNum(prop.similarity_score) /\ prop.similarity_score[1] < min_similarity

ContentEdgeAttrs(prop) ==
    [propagation_type |-> prop.propagation_type,
     similarity |-> NumOrZero(prop.similarity_score),
     mutation |-> prop.mutation_detected,
     time_delta |-> NumOrZero(prop.time_delta_seconds)]

\* The loop over the rows, from the graph g
RECURSIVE AddContentEdges(_, _, _)
AddContentEdges(g, rows, min_similarity) ==
    IF rows = <<>> THEN g
    ELSE LET prop == Head(rows)
         IN  IF BelowThreshold(prop, min_similarity)
             THEN AddContentEdges(g, Tail(rows), min_similarity)
             ELSE AddContentEdges(
                      AddEdge(g, prop.source_content_id, prop.target_content_id,
                              ContentEdgeAttrs(prop)),
                      Tail(rows), min_similarity)

\* The graph after the query and the loop, from the graph g
ContentGraphFrom(g, days_back, min_similarity) ==
    AddContentEdges(g, PropagationsSince(days_back), min_similarity)

BuiltContentGraph(days_back, min_similarity) ==
    ContentGraphFrom(Clear(content_graph), days_back, min_similarity)

BuildContentGraph(days_back, min_similarity) ==
    /\ Idle
    /\ content_graph' = BuiltContentGraph(days_back, min_similarity)
    /\ ret' = Call("build_content_graph",
                    [days_back |-> days_back, min_similarity |-> min_similarity],
                    Ok(content_graph'))
    /\ ReadOnlyStore
    /\ UNCHANGED source_graph

-----------------------------------------------------------------------------
(* build_source_graph *)

SourceNodeAttrs(source) ==
    [name |-> source.name,
     source_type |-> source.source_type,
     language |-> IF TruthyId(source.language) THEN source.language ELSE "unknown",
     is_doppelganger |-> source.is_doppelganger,
     is_amplifier |-> source.is_amplifier]

RECURSIVE AddSourceNodes(_, _)
AddSourceNodes(g, rows) ==
    IF rows = <<>> THEN g
    ELSE AddSourceNodes(AddNode(g, Head(rows).id, SourceNodeAttrs(Head(rows))), Tail(rows))

\* The test without the comparison of the two owners
CountsForPairSameOwner(prop) ==
    LET src_id == contents[prop.source_content_id].source_id
        tgt_id == contents[prop.target_content_id].source_id
    IN  TruthyId(src_id) /\ TruthyId(tgt_id)

\* The test of the counting loop: the row counts for the pair of its owners
CountsForPair(prop) ==
    LET src_id == ContentOf(prop.source_content_id).source_id
        tgt_id == ContentOf(prop.target_content_id).source_id
    IN  TruthyId(src_id) /\ TruthyId(tgt_id) /\ src_id /= tgt_id

OwnerPair(prop) ==
    <<ContentOf(prop.source_content_id).source_id,
      ContentOf(prop.target_content_id).source_id>>

\* edge_weights: the defaultdict(int), as its keys in insertion order and
\* the counter of each key
RECURSIVE EdgeWeights(_, _)
EdgeWeights(ew, rows) ==
    IF rows = <<>> THEN ew
    ELSE LET prop == Head(rows)
             key  == OwnerPair(prop)
         IN  IF ~CountsForPair(prop) THEN EdgeWeights(ew, Tail(rows))
             ELSE EdgeWeights(
                    [keys |-> IF key \in DOMAIN ew.count THEN ew.keys ELSE Append(ew.keys, key),
                     count |-> [k \in DOMAIN ew.count \cup {key} |->
                                   IF k = key
                                   THEN (IF key \in DOMAIN ew.count THEN ew.count[key] ELSE 0) + 1
                                   ELSE ew.count[k]]],
                    Tail(rows))

\* The loop over edge_weights.items()
RECURSIVE AddWeightedEdges(_, _, _)
AddWeightedEdges(g, keys, count) ==
    IF keys = <<>> THEN g
    ELSE LET key == Head(keys)
         IN  AddWeightedEdges(AddEdge(g, key[1], key[2], [weight |-> count[key]]),
                              Tail(keys), count)

\* The graph after the query of the rows and the two loops over them, from
\* the graph g
SourceEdgesFrom(g, days_back) ==
    LET ew == EdgeWeights([keys |-> <<>>, count |-> EmptyDict], PropagationsSince(days_back))
    IN  AddWeightedEdges(g, ew.keys, ew.count)

\* The graph after the two queries and the loops, from the graph g
SourceGraphFrom(g, days_back) ==
    SourceEdgesFrom(AddSourceNodes(g, ActiveSources), days_back)

BuiltSourceGraph(days_back) == SourceGraphFrom(Clear(source_graph), days_back)

BuildSourceGraph(days_back) ==
    /\ Idle
    /\ source_graph' = BuiltSourceGraph(days_back)
    /\ ret' = Call("build_source_graph", [days_back |-> days_back], Ok(source_graph'))
    /\ ReadOnlyStore
    /\ UNCHANGED content_graph

-----------------------------------------------------------------------------
(* The graph builder on a store snapshot *)

\* Ownership of the content rows: c1 and c2 may share their source, c3 may
\* have none (source_id is nullable, ON DELETE SET NULL)
OwnerChoices ==
    {[c \in ContentIds |-> IF c = "c1" THEN "s1" ELSE IF c = "c2" THEN o2 ELSE o3] :
        o2 \in {"s1", "s2"}, o3 \in {None, "s2", "s3"}}

\* Which sources are active
ActiveChoices == {{"s1", "s2", "s3"}, {"s1", "s2"}, {}}

SourceRows(active) ==
    <<SourceRow("s1", "s1" \in active), SourceRow("s2", "s2" \in active),
      SourceRow("s3", "s3" \in active)>>

ContentRows(owner) == [c \in ContentIds |-> ContentRow(c, owner[c], NoNum)]

\* Rows that differ in their owners: any ordered pair of two contents
OwnershipLinks ==
    {l \in [src : ContentIds, tgt : ContentIds, sim : {NoNum}, created : CreatedAtValues] :
        l.src /= l.tgt}

\* Rows that differ in their similarity score
SimilarityLinks ==
    [src : {"c1"}, tgt : {"c2", "c3"},
     sim : {NoNum} \cup {Num(x) : x \in SimilarityValues}, created : CreatedAtValues]

LinkSeqs(choices) == UNION {[1..n -> choices] : n \in 0..MaxLinks}

PropagationRows(links) ==
    [i \in DOMAIN links |->
        PropagationRow(i, links[i].src, links[i].tgt, links[i].sim, links[i].created)]

\* After NetworkAnalyzer.__init__: two empty graphs
\* No collector is made and the module of the thread pool is not imported
NoCollector == EmptyDict

NoPool == EmptyDict

InitAnalyzer ==
    /\ content_graph = EmptyGraph
    /\ source_graph = EmptyGraph
    /\ ret = NoCall
    /\ instances = EmptyDict
    /\ threads = EmptyDict
    /\ collector = NoCollector
    /\ pool = NoPool

Init ==
    /\ \/ \E owner \in OwnerChoices, active \in ActiveChoices, links \in LinkSeqs(OwnershipLinks) :
            /\ sources = SourceRows(active)
            /\ contents = ContentRows(owner)
            /\ propagations = PropagationRows(links)
       \/ \E links \in LinkSeqs(SimilarityLinks) :
            /\ sources = SourceRows({"s1", "s2", "s3"})
            /\ contents = ContentRows([c \in ContentIds |-> "s1"])
            /\ propagations = PropagationRows(links)
    /\ InitAnalyzer

Next ==
    \/ \E d \in DaysBackValues, m \in MinSimilarityValues : BuildContentGraph(d, m)
    \/ \E d \in DaysBackValues : BuildSourceGraph(d)
    \/ Return

Spec == Init /\ [][Next]_vars

-----------------------------------------------------------------------------
(* Numbers of the centrality metrics: exact fractions [num, den], den > 0 *)

RECURSIVE Gcd(_, _)
Gcd(a, b) == IF b = 0 THEN a ELSE Gcd(b, a % b)

Frac(n, d) == LET g == Gcd(n, d) IN IF g = 0 THEN [num |-> 0, den |-> 1]
                                    ELSE [num |-> n \div g, den |-> d \div g]

Zero == Frac(0, 1)

FracAdd(x, y) == Frac(x.num * y.den + y.num * x.den, x.den * y.den)

FracMul(x, y) == Frac(x.num * y.num, x.den * y.den)

FracTimes(x, k) == Frac(x.num * k, x.den)

FracLess(x, y) == x.num * y.den < y.num * x.den

-----------------------------------------------------------------------------
(* networkx.betweenness_centrality(graph): shortest-path betweenness,      *)
(* normalized by 1 / ((n - 1)(n - 2)) on a directed graph of n > 2 nodes   *)

\* The simple paths of g from s to t, as sequences of nodes
SimplePaths(g, s, t) ==
    {p \in UNION {[1..k -> Nodes(g)] : k \in 2..NumberOfNodes(g)} :
        /\ p[1] = s /\ p[Len(p)] = t
        /\ \A i \in 1..(Len(p) - 1) : <<p[i], p[i + 1]>> \in Edges(g)
        /\ \A i, j \in 1..Len(p) : i /= j => p[i] /= p[j]}

ShortestPaths(g, s, t) ==
    LET ps == SimplePaths(g, s, t)
    IN  {p \in ps : \A q \in ps : Len(p) <= Len(q)}

\* The share of the shortest paths from s to t that pass through v
PairDependency(g, s, t, v) ==
    LET sp == ShortestPaths(g, s, t)
    IN  IF sp = {} THEN Zero
        ELSE Frac(Cardinality({p \in sp : \E i \in 2..(Len(p) - 1) : p[i] = v}),
                  Cardinality(sp))

RECURSIVE SumDependencies(_, _, _)
SumDependencies(g, pairs, v) ==
    IF pairs = {} THEN Zero
    ELSE LET st == CHOOSE x \in pairs : TRUE
         IN  FracAdd(PairDependency(g, st[1], st[2], v),
                     SumDependencies(g, pairs \ {st}, v))

BetweennessCentrality(g) ==
    LET n == NumberOfNodes(g)
    IN  [v \in Nodes(g) |->
            IF n <= 2 THEN Zero
            ELSE FracMul(
                    SumDependencies(
                        g, {st \in Nodes(g) \X Nodes(g) :
                                st[1] /= st[2] /\ st[1] /= v /\ st[2] /= v}, v),
                    Frac(1, (n - 1) * (n - 2)))]

-----------------------------------------------------------------------------
(* networkx.pagerank(graph, max_iter=100): a probability distribution over *)
(* the nodes in which every node has a positive share, in units of         *)
(* 1 / PageRankUnits; or PowerIterationFailedConvergence                   *)

PageRankUnits == 5

\* The outcome of a library call: an exception or a value
Raised == [raised |-> TRUE, value |-> EmptyDict]

Returned(v) == [raised |-> FALSE, value |-> v]

RECURSIVE SumOver(_, _)
SumOver(f, S) ==
    IF S = {} THEN 0
    ELSE LET x == CHOOSE y \in S : TRUE IN f[x] + SumOver(f, S \ {x})

PageRankOutcomes(g) ==
    {Raised} \cup
    {Returned([v \in Nodes(g) |-> Frac(u[v], PageRankUnits)]) :
        u \in {w \in [Nodes(g) -> 1..PageRankUnits] : SumOver(w, Nodes(g)) = PageRankUnits}}

-----------------------------------------------------------------------------
(* find_superspreaders *)

\* dict.get(key, default)
DictGet(d, key, default) == IF key \in DOMAIN d THEN d[key] ELSE default

\* A fallback that is not zero
OneForEveryNode(g) == [v \in Nodes(g) |-> Frac(1, 1)]

\* The except branches: {n: 0 for n in graph.nodes()}
ZeroForEveryNode(g) == [v \in Nodes(g) |-> Zero]

\* The weighted sum without the scaling of the two normalized metrics
CombinedScoreUnscaled(out_degree, pagerank, betweenness) ==
    FracAdd(FracAdd(FracMul(Frac(out_degree, 1), Frac(4, 10)),
                    FracMul(pagerank, Frac(4, 10))),
            FracMul(betweenness, Frac(2, 10)))

\* score = out_degree * 0.4 + pagerank * 100 * 0.4 + betweenness * 10 * 0.2
CombinedScore(out_degree, pagerank, betweenness) ==
    FracAdd(FracAdd(FracMul(Frac(out_degree, 1), Frac(4, 10)),
                    FracMul(FracTimes(pagerank, 100), Frac(4, 10))),
            FracMul(FracTimes(betweenness, 10), Frac(2, 10)))

SuperspreaderInfo(g, node, pagerank, betweenness) ==
    LET attrs == g.node[node]
        od    == OutDegree(g, node)
    IN  [id |-> node,
         name |-> DictGet(attrs, "name", node),
         source_type |-> DictGet(attrs, "source_type", "unknown"),
         out_degree |-> od,
         pagerank |-> DictGet(pagerank, node, Zero),
         betweenness |-> DictGet(betweenness, node, Zero),
         score |-> CombinedScore(od, DictGet(pagerank, node, Zero),
                                 DictGet(betweenness, node, Zero)),
         is_doppelganger |-> DictGet(attrs, "is_doppelganger", FALSE)]

\* The order of a sort without reverse=True
ScoreBeforeAscending(x, y) == FracLess(x.score, y.score)

\* The key of the sort comes before, for list.sort(key=score, reverse=True)
ScoreBefore(x, y) == FracLess(y.score, x.score)

\* list.sort(reverse=True) is stable: x goes behind the records that do not
\* come after it
RECURSIVE InsertByScore(_, _)
InsertByScore(sorted, x) ==
    IF sorted = <<>> THEN <<x>>
    ELSE IF ScoreBefore(x, Head(sorted)) THEN <<x>> \o sorted
         ELSE <<Head(sorted)>> \o InsertByScore(Tail(sorted), x)

RECURSIVE SortByScore(_)
SortByScore(records) ==
    IF records = <<>> THEN <<>>
    ELSE InsertByScore(SortByScore(SubSeq(records, 1, Len(records) - 1)),
                       records[Len(records)])

\* list[:top_n] for top_n >= 0
Take(seq, n) == SubSeq(seq, 1, IF n < Len(seq) THEN n ELSE Len(seq))

\* The result of find_superspreaders on the graph g, for an outcome of
\* either library call
Superspreaders(g, top_n, pr, bt) ==
    IF NumberOfNodes(g) = 0 THEN Ok(<<>>)
    ELSE LET pagerank    == IF pr.raised THEN ZeroForEveryNode(g) ELSE pr.value
             betweenness == IF bt.raised THEN ZeroForEveryNode(g) ELSE bt.value
             records     == [i \in DOMAIN g.order |->
                                SuperspreaderInfo(g, g.order[i], pagerank, betweenness)]
         IN  Ok(Take(SortByScore(records), top_n))

\* The graphs a caller passes: None (the default), or one of the graphs of
\* the instance or its undirected projection, passed explicitly
PassedGraph(graph) ==
    CASE graph = "content_graph" -> content_graph
      [] graph = "source_graph" -> source_graph
      [] graph = "content_graph.to_undirected()" -> ToUndirected(content_graph)
      [] graph = "source_graph.to_undirected()" -> ToUndirected(source_graph)

FindSuperspreaders(graph, top_n) ==
    /\ Idle
    /\ LET g  == IF graph = None THEN source_graph ELSE PassedGraph(graph)
           bc == BetweennessCentrality(g)
       IN  \E pr \in PageRankOutcomes(g), bt \in {Raised, Returned(bc)} :
            /\ ret' = Call("find_superspreaders",
                            [graph |-> graph, analysed |-> g, top_n |-> top_n,
                             pagerank |-> pr, betweenness |-> bt],
                            Superspreaders(g, top_n, pr, bt))
            /\ ReadOnlyStore
            /\ UNCHANGED <<content_graph, source_graph>>

-----------------------------------------------------------------------------
(* community_louvain.best_partition(graph): a TypeError on a directed      *)
(* graph; on a graph without edges every node in a community of its own,   *)
(* numbered in node order; otherwise some partition with the communities   *)
(* numbered from 0, or a failure inside the library                        *)

Partitions(g) ==
    {p \in [Nodes(g) -> 0..(NumberOfNodes(g) - 1)] :
        \A c \in 0..(NumberOfNodes(g) - 1) :
            (\E v \in Nodes(g) : p[v] = c) => \A b \in 0..c : \E v \in Nodes(g) : p[v] = b}

BestPartitionOutcomes(g) ==
    IF g.directed THEN {Raised}
    ELSE IF NumberOfEdges(g) = 0
         THEN {Returned([v \in Nodes(g) |-> OrderIndex(g, v) - 1])}
         ELSE {Raised} \cup {Returned(p) : p \in Partitions(g)}

-----------------------------------------------------------------------------
(* detect_communities *)

\* detect_communities without the try / except around best_partition
CommunitiesUncaught(g, outcome) ==
    IF NumberOfNodes(g) < 2 THEN Ok(EmptyDict)
    ELSE IF outcome.raised THEN Exc("Exception")
         ELSE Ok(outcome.value)

\* The result of detect_communities on the graph g, for an outcome of the
\* library call
Communities(g, outcome) ==
    IF NumberOfNodes(g) < 2 THEN Ok(EmptyDict)
    ELSE IF outcome.raised THEN Ok(EmptyDict)
         ELSE Ok(outcome.value)

DetectCommunities(graph) ==
    /\ Idle
    /\ LET g == IF graph = None THEN ToUndirected(source_graph) ELSE PassedGraph(graph)
       IN  \E outcome \in BestPartitionOutcomes(g) :
            /\ ret' = Call("detect_communities",
                            [graph |-> graph, analysed |-> g, outcome |-> outcome],
                            Communities(g, outcome))
            /\ ReadOnlyStore
            /\ UNCHANGED <<content_graph, source_graph>>

-----------------------------------------------------------------------------
(* The centrality ranker and the community detector on the graphs of a     *)
(* store snapshot                                                          *)

MaxTopN == 3

\* The default window and threshold
DefaultDaysBack == 30

DefaultMinSimilarity == 5

RankedLinks ==
    {l \in [src : ContentIds, tgt : ContentIds, sim : {NoNum}, created : {Now - 1}] :
        l.src /= l.tgt}

InitRank ==
    /\ \E active \in {{"s1", "s2", "s3"}, {"s1", "s2"}, {"s1"}, {}},
          links \in LinkSeqs(RankedLinks) :
            /\ sources = SourceRows(active)
            /\ contents = ContentRows([c \in ContentIds |->
                              IF c = "c1" THEN "s1" ELSE IF c = "c2" THEN "s2" ELSE "s3"])
            /\ propagations = PropagationRows(links)
    /\ InitAnalyzer

NextRank ==
    \/ BuildContentGraph(DefaultDaysBack, DefaultMinSimilarity)
    \/ BuildSourceGraph(DefaultDaysBack)
    \/ \E graph \in {None, "content_graph"}, top_n \in 0..MaxTopN :
            FindSuperspreaders(graph, top_n)
    \/ \E graph \in {None, "source_graph", "content_graph.to_undirected()"} :
            DetectCommunities(graph)
    \/ Return

SpecRank == InitRank /\ [][NextRank]_vars

-----------------------------------------------------------------------------
(* detect_coordinated_behavior *)

\* Query(Content).filter(Content.published_at.isnot(None))
\*               .order_by(Content.published_at).all():
\* the rows with a publication time, in ascending order of it; the order of
\* rows of one time is the choice of the database
RECURSIVE OrderedByTime(_)
OrderedByTime(timed) ==
    IF timed = {} THEN {<<>>}
    ELSE LET first == {c \in timed :
                          \A d \in timed :
                              contents[c].published_at[1] <= contents[d].published_at[1]}
         IN  UNION {{<<c>> \o q : q \in OrderedByTime(timed \ {c})} : c \in first}

ContentsByTime ==
    OrderedByTime({c \in DOMAIN contents : contents[c].published_at /= NoNum})

\* The day of the time in place of its hour
DayKey(t) == t \div (24 * 60 * 60)

\* published_at.strftime("%Y-%m-%dT%H"): the hour of the time, the time
\* being in seconds from the start of an hour
HourKey(t) == t \div (60 * 60)

\* A loop over j that takes the rows strictly within the window
RECURSIVE GrowWindowStrict(_, _, _, _, _)
GrowWindowStrict(rows, content, j, time_window_seconds, window_contents) ==
    IF j > Len(rows) THEN window_contents
    ELSE LET other == rows[j]
         IN  IF other.published_at = NoNum
             THEN GrowWindowStrict(rows, content, j + 1, time_window_seconds, window_contents)
             ELSE LET delta == other.published_at[1] - content.published_at[1]
                  IN  IF delta < time_window_seconds
                      THEN GrowWindowStrict(rows, content, j + 1, time_window_seconds,
                                            Append(window_contents, other))
                      ELSE window_contents

\* The loop over j from the anchor: the rows within the window of the
\* anchor, up to the first row beyond it
RECURSIVE GrowWindow(_, _, _, _, _)
GrowWindow(rows, content, j, time_window_seconds, window_contents) ==
    IF j > Len(rows) THEN window_contents
    ELSE LET other == rows[j]
         IN  IF other.published_at = NoNum
             THEN GrowWindow(rows, content, j + 1, time_window_seconds, window_contents)
             ELSE LET delta == other.published_at[1] - content.published_at[1]
                  IN  IF delta <= time_window_seconds
                      THEN GrowWindow(rows, content, j + 1, time_window_seconds,
                                      Append(window_contents, other))
                      ELSE window_contents

\* {c.source_id for c in window_contents if c.source_id}
WindowSources(window_contents) ==
    {window_contents[k].source_id : k \in DOMAIN window_contents} \ {None, ""}

\* The test on the length of the window alone
IsCoordinatedByCount(window_contents, min_actors) ==
    Len(window_contents) >= min_actors

\* The two tests of the check for coordination
IsCoordinated(window_contents, min_actors) ==
    /\ Len(window_contents) >= min_actors
    /\ Cardinality(WindowSources(window_contents)) >= min_actors

\* A test that takes every hour for a new one
HourNeverSeen(hour_key, seen_hours) == TRUE

\* hour_key not in seen_hours
HourNotSeen(hour_key, seen_hours) == hour_key \notin seen_hours

\* An event that lists every row of its window
CoordinatedBehaviorEventAllIds(content, window_contents, time_window_seconds) ==
    [timestamp |-> content.published_at[1],
     content_count |-> Len(window_contents),
     unique_sources |-> Cardinality(WindowSources(window_contents)),
     window_seconds |-> time_window_seconds,
     content_ids |-> [k \in 1..Len(window_contents) |-> window_contents[k].id]]

CoordinatedBehaviorEvent(content, window_contents, time_window_seconds) ==
    [timestamp |-> content.published_at[1],
     content_count |-> Len(window_contents),
     unique_sources |-> Cardinality(WindowSources(window_contents)),
     window_seconds |-> time_window_seconds,
     content_ids |-> [k \in 1..Min(10, Len(window_contents)) |-> window_contents[k].id]]

\* The loop over i, from the i-th row on
RECURSIVE Sweep(_, _, _, _, _, _)
Sweep(rows, i, time_window_seconds, min_actors, seen_hours, coordinated) ==
    IF i > Len(rows) THEN coordinated
    ELSE LET content == rows[i]
         IN  IF content.published_at = NoNum
             THEN Sweep(rows, i + 1, time_window_seconds, min_actors, seen_hours, coordinated)
             ELSE LET window_contents ==
                          GrowWindow(rows, content, i, time_window_seconds, <<>>)
                      hour_key == HourKey(content.published_at[1])
                  IN  IF /\ IsCoordinated(window_contents, min_actors)
                         /\ HourNotSeen(hour_key, seen_hours)
                      THEN Sweep(rows, i + 1, time_window_seconds, min_actors,
                                 seen_hours \cup {hour_key},
                                 Append(coordinated,
                                        CoordinatedBehaviorEvent(content, window_contents,
                                                                 time_window_seconds)))
                      ELSE Sweep(rows, i + 1, time_window_seconds, min_actors,
                                 seen_hours, coordinated)

CoordinatedBehavior(rows, time_window_seconds, min_actors) ==
    IF rows = <<>> THEN Ok(<<>>)
    ELSE Ok(Sweep(rows, 1, time_window_seconds, min_actors, {}, <<>>))

DetectCoordinatedBehavior(time_window_seconds, min_actors) ==
    /\ Idle
    /\ \E q \in ContentsByTime :
         LET rows == [i \in DOMAIN q |-> contents[q[i]]]
         IN  ret' = Call("detect_coordinated_behavior",
                         [time_window_seconds |-> time_window_seconds,
                          min_actors |-> min_actors, contents |-> rows],
                         CoordinatedBehavior(rows, time_window_seconds, min_actors))
    /\ ReadOnlyStore
    /\ UNCHANGED <<content_graph, source_graph>>

-----------------------------------------------------------------------------
(* The coordination detector on the content of a store snapshot *)

MaxContents == 3

ContentNames == <<"c1", "c2", "c3", "c4", "c5">>

\* published_at values in seconds: a burst at the start of an hour and a
\* burst across the end of it
PublishedAtValues == {0, 10, 20, 3590, 3600, 3610}

TimeWindowValues == {10, 30}

MinActorsValues == {2, 3}

\* The rows in the order of their ids: those without a time first, the
\* others in ascending order of time
TimedContents ==
    UNION {
        {r \in [1..n -> [source_id : SourceIds \cup {None},
                         published_at : {NoNum} \cup {Num(t) : t \in PublishedAtValues}]] :
            \A i \in 1..(n - 1) :
                \/ r[i].published_at = NoNum
                \/ /\ r[i + 1].published_at /= NoNum
                   /\ r[i].published_at[1] <= r[i + 1].published_at[1]} :
        n \in 0..MaxContents}

InitCoord ==
    /\ sources = SourceRows({"s1", "s2", "s3"})
    /\ \E r \in TimedContents :
         contents = [c \in {ContentNames[i] : i \in DOMAIN r} |->
                        LET i == CHOOSE k \in DOMAIN r : ContentNames[k] = c
                        IN  ContentRow(c, r[i].source_id, r[i].published_at)]
    /\ propagations = <<>>
    /\ InitAnalyzer

NextCoord ==
    \/ \E w \in TimeWindowValues, m \in MinActorsValues : DetectCoordinatedBehavior(w, m)
    \/ Return

SpecCoord == InitCoord /\ [][NextCoord]_vars

-----------------------------------------------------------------------------
(* Properties of the graph builder *)

\* The rows of the store in the window of a call with days_back
InWindow(prop, days_back) == prop.created_at >= Now - days_back

\* The rows in the window that go from content owned by a to content owned by b
LinksBetween(a, b, days_back) ==
    {i \in DOMAIN propagations :
        /\ InWindow(propagations[i], days_back)
        /\ contents[propagations[i].source_content_id].source_id = a
        /\ contents[propagations[i].target_content_id].source_id = b}

\* C1: after build_source_graph, for every ordered pair (a, b) of distinct
\* sources the source graph has the edge a -> b exactly when at least one
\* propagation row of the window goes from content of a to content of b,
\* and the weight of the edge is the number of these rows.
C1_EdgeWeightIsLinkCount ==
    ret.op = "build_source_graph" =>
        \A a \in SourceIds, b \in SourceIds :
            a /= b =>
                LET n == Cardinality(LinksBetween(a, b, ret.arg.days_back))
                IN  /\ (<<a, b>> \in Edges(ret.val)) <=> (n >= 1)
                    /\ (<<a, b>> \in Edges(ret.val)) => ret.val.edge[<<a, b>>].weight = n

\* A built source graph with an edge that counts two rows
C1_Witness ==
    /\ ret.op = "build_source_graph"
    /\ \E e \in Edges(ret.val) : ret.val.edge[e].weight = 2

\* C2: the source graph never has a self-loop: a row whose two contents
\* have the same owner produces no edge.
C2_NoSelfLoop == \A e \in Edges(source_graph) : e[1] /= e[2]

\* A source graph built from a window that holds a row between two contents
\* of one source
C2_Witness ==
    /\ ret.op = "build_source_graph"
    /\ ret.val = source_graph
    /\ \E a \in SourceIds : LinksBetween(a, a, ret.arg.days_back) /= {}

\* The rows of the window that the claimed rule keeps: no score, or a score
\* that is at least the threshold
KeptByRule(days_back, min_similarity) ==
    {i \in DOMAIN propagations :
        /\ InWindow(propagations[i], days_back)
        /\ \/ propagations[i].similarity_score = NoNum
           \/ propagations[i].similarity_score[1] >= min_similarity}

\* C3: build_content_graph adds the edge of a row of the window if and only
\* if the row has no similarity score or a score >= min_similarity; a row
\* with a score below the threshold, a score of 0 included, adds none.
C3_EdgeIffScoreAtLeastThreshold ==
    ret.op = "build_content_graph" =>
        Edges(ret.val) =
            {<<propagations[i].source_content_id, propagations[i].target_content_id>> :
                i \in KeptByRule(ret.arg.days_back, ret.arg.min_similarity)}

-----------------------------------------------------------------------------
(* Properties of the centrality ranker *)

\* The outgoing edges of the node v of g
OutgoingEdges(g, v) == {t \in Nodes(g) : <<v, t>> \in Edges(g)}

\* The value of a metric for the node v: 0 after a failure of its computation
MetricOf(outcome, v) == IF outcome.raised THEN Zero ELSE outcome.value[v]

\* 0.4 * out_degree + 0.4 * (100 * pagerank) + 0.2 * (10 * betweenness)
StatedScore(out_degree, pagerank, betweenness) ==
    FracAdd(Frac(4 * out_degree, 10),
            FracAdd(Frac(4 * 100 * pagerank.num, 10 * pagerank.den),
                    Frac(2 * 10 * betweenness.num, 10 * betweenness.den)))

\* The score of the node v of the analysed graph of the last call
ScoreOfNode(v) ==
    StatedScore(Cardinality(OutgoingEdges(ret.arg.analysed, v)),
                MetricOf(ret.arg.pagerank, v), MetricOf(ret.arg.betweenness, v))

Ranked == ret.op = "find_superspreaders"

\* C4: find_superspreaders(graph, top_n = N) returns the empty list for a
\* graph without nodes, and otherwise min(N, number of nodes) records, one
\* per distinct node, in non-increasing order of score, and no node left
\* out has a score above the score of a returned one.
C4_TopNByScore ==
    Ranked =>
        LET g == ret.arg.analysed
            r == ret.val
        IN  /\ NumberOfNodes(g) = 0 => r = <<>>
            /\ Len(r) = Min(ret.arg.top_n, NumberOfNodes(g))
            /\ \A i \in DOMAIN r : r[i].id \in Nodes(g)
            /\ \A i, j \in DOMAIN r : i /= j => r[i].id /= r[j].id
            /\ \A i, j \in DOMAIN r : i < j => ~FracLess(r[i].score, r[j].score)
            /\ \A v \in Nodes(g) \ {r[i].id : i \in DOMAIN r} :
                    \A i \in DOMAIN r : ~FracLess(r[i].score, ScoreOfNode(v))

\* A call that leaves a node out, returns two records of different scores
\* and does not start with the first node of the graph
C4_Witness ==
    /\ Ranked
    /\ Len(ret.val) = 2
    /\ NumberOfNodes(ret.arg.analysed) = 3
    /\ FracLess(ret.val[2].score, ret.val[1].score)
    /\ ret.val[1].id /= ret.arg.analysed.order[1]
    /\ \E v \in Nodes(ret.arg.analysed) : FracLess(ScoreOfNode(v), ret.val[2].score)

\* C5: every record of find_superspreaders has the number of outgoing edges
\* of its node as out_degree and
\* score = 0.4 * out_degree + 0.4 * (100 * pagerank) + 0.2 * (10 * betweenness)
\* of its own fields; on a graph of one node and no edge (and top_n >= 1)
\* there is exactly one record, with out_degree 0 and betweenness 0.
C5_ScoreFormula ==
    Ranked =>
        LET g == ret.arg.analysed
            r == ret.val
        IN  /\ \A i \in DOMAIN r :
                /\ r[i].out_degree = Cardinality(OutgoingEdges(g, r[i].id))
                /\ r[i].score = StatedScore(r[i].out_degree, r[i].pagerank, r[i].betweenness)
            /\ (NumberOfNodes(g) = 1 /\ NumberOfEdges(g) = 0 /\ ret.arg.top_n >= 1) =>
                /\ Len(r) = 1
                /\ r[1].out_degree = 0
                /\ r[1].betweenness = Zero

\* A call on a graph of one node and no edge, with both metrics computed
C5_Witness ==
    /\ Ranked
    /\ NumberOfNodes(ret.arg.analysed) = 1
    /\ NumberOfEdges(ret.arg.analysed) = 0
    /\ ~ret.arg.pagerank.raised /\ ~ret.arg.betweenness.raised
    /\ Len(ret.val) = 1

\* C6: a failure of the PageRank or of the betweenness computation does not
\* leave find_superspreaders: the failed metric is 0 for every node, the
\* other metric and out_degree are those computed, and the full ranked list
\* is returned, with scores that count the failed metric as 0.
C6_MetricFailureFallsBackToZero ==
    (Ranked /\ (ret.arg.pagerank.raised \/ ret.arg.betweenness.raised)) =>
        LET g == ret.arg.analysed
            r == ret.val
        IN  /\ ret.exc = None
            /\ Len(r) = Min(ret.arg.top_n, NumberOfNodes(g))
            /\ \A i \in DOMAIN r :
                /\ r[i].pagerank = MetricOf(ret.arg.pagerank, r[i].id)
                /\ r[i].betweenness = MetricOf(ret.arg.betweenness, r[i].id)
                /\ r[i].out_degree = Cardinality(OutgoingEdges(g, r[i].id))
                /\ r[i].score = ScoreOfNode(r[i].id)
            /\ \A i, j \in DOMAIN r : i < j => ~FracLess(r[i].score, r[j].score)

\* A call in which PageRank failed and betweenness is not 0 for some node
C6_Witness ==
    /\ Ranked
    /\ ret.arg.pagerank.raised /\ ~ret.arg.betweenness.raised
    /\ Len(ret.val) = 3
    /\ \E i \in DOMAIN ret.val : ret.val[i].betweenness /= Zero
    /\ \E i \in DOMAIN ret.val : ret.val[i].out_degree = 0

-----------------------------------------------------------------------------
(* Properties of the community detector *)

Partitioned == ret.op = "detect_communities"

\* C7: detect_communities never raises: on a graph of fewer than 2 nodes it
\* returns an empty mapping, and when the partitioning fails it returns an
\* empty mapping.
C7_CommunitiesNeverRaise ==
    Partitioned =>
        /\ ret.exc = None
        /\ NumberOfNodes(ret.arg.analysed) < 2 => ret.val = EmptyDict
        /\ ret.arg.outcome.raised => ret.val = EmptyDict

\* A failure of the partitioning of an undirected graph of 2 or more nodes
C7_Witness ==
    /\ Partitioned
    /\ NumberOfNodes(ret.arg.analysed) >= 2
    /\ ~ret.arg.analysed.directed
    /\ ret.arg.outcome.raised
    /\ ret.val = EmptyDict

\* C8: detect_communities on a graph of 2 or more nodes, directed or not,
\* passed by the caller or the default source graph, returns a mapping that
\* gives every node of the graph an integer community id (the partitioning
\* of an undirected graph not having failed).
C8_EveryNodeHasCommunity ==
    (/\ Partitioned
     /\ NumberOfNodes(ret.arg.analysed) >= 2
     /\ ret.arg.outcome.raised => ret.arg.analysed.directed) =>
        /\ DOMAIN ret.val = Nodes(ret.arg.analysed)
        /\ \A v \in DOMAIN ret.val : ret.val[v] \in Nat

-----------------------------------------------------------------------------
(* Properties of the coordination detector *)

Swept == ret.op = "detect_coordinated_behavior"

\* The place of the anchor of the event e in the rows of the last call: the
\* first content id of the event
AnchorIndex(e) ==
    CHOOSE i \in DOMAIN ret.arg.contents : ret.arg.contents[i].id = e.content_ids[1]

\* The rows from the i-th on whose time is at most the window length after
\* the time of the i-th
WindowFrom(i) ==
    {j \in DOMAIN ret.arg.contents :
        /\ j >= i
        /\ ret.arg.contents[j].published_at[1] - ret.arg.contents[i].published_at[1]
              <= ret.arg.time_window_seconds}

\* The sources of a set of rows of the last call
SourcesOfRows(js) == {ret.arg.contents[j].source_id : j \in js} \ {None}

\* The rows of the last call are three rows at 0 s, 10 s and 20 s of three
\* distinct sources, the window is 30 s and min_actors is 3
ThreeSourcesExample ==
    /\ Swept
    /\ ret.arg.time_window_seconds = 30
    /\ ret.arg.min_actors = 3
    /\ Len(ret.arg.contents) = 3
    /\ \A i \in 1..3 : ret.arg.contents[i].published_at = Num(10 * (i - 1))
    /\ Cardinality(SourcesOfRows(1..3)) = 3

\* C9: an event is anchored at a row only if the window grown from the row
\* holds at least min_actors rows of at least min_actors distinct sources;
\* rows at 0 s, 10 s and 20 s of 3 distinct sources give, with a window of
\* 30 s and min_actors = 3, exactly one event with content_count = 3 and
\* unique_sources = 3; and rows of fewer than min_actors distinct sources
\* give no event.
C9_EventOnlyForEnoughSources ==
    Swept =>
        /\ ret.exc = None
        /\ \A k \in DOMAIN ret.val :
              LET w == WindowFrom(AnchorIndex(ret.val[k]))
              IN  /\ ret.val[k].timestamp
                        = ret.arg.contents[AnchorIndex(ret.val[k])].published_at[1]
                  /\ Cardinality(w) >= ret.arg.min_actors
                  /\ Cardinality(SourcesOfRows(w)) >= ret.arg.min_actors
        /\ ThreeSourcesExample =>
              /\ Len(ret.val) = 1
              /\ ret.val[1].content_count = 3
              /\ ret.val[1].unique_sources = 3
        /\ Cardinality(SourcesOfRows(DOMAIN ret.arg.contents)) < ret.arg.min_actors =>
              ret.val = <<>>

\* The example of the claim, with its event
C9_Witness == ThreeSourcesExample /\ Len(ret.val) = 1

\* The anchor of a later event is a row of the window of an earlier event
AnchoredInEarlierWindow(k1, k2) ==
    /\ k1 < k2
    /\ AnchorIndex(ret.val[k2]) \in WindowFrom(AnchorIndex(ret.val[k1]))

\* C10 as stated: the sweep jumps past the window of an emitted event, so no
\* later event of the call is anchored at a row of the window of an earlier
\* event, also when the burst crosses an hour boundary.
C10_SkipsPastWindow ==
    Swept => \A k1, k2 \in DOMAIN ret.val : ~AnchoredInEarlierWindow(k1, k2)

\* C10 as amended: the sweep advances row by row; a later event is anchored
\* at a row of the window of an earlier event only when the row lies in a
\* later hour than the anchor of the earlier event.
C10_OverlapOnlyAcrossHours ==
    Swept =>
        \A k1, k2 \in DOMAIN ret.val :
            AnchoredInEarlierWindow(k1, k2) =>
                HourKey(ret.val[k2].timestamp) > HourKey(ret.val[k1].timestamp)

\* Two events of one call, the later one anchored in the window of the
\* earlier one
C10_Witness ==
    /\ Swept
    /\ \E k1, k2 \in DOMAIN ret.val : AnchoredInEarlierWindow(k1, k2)

\* The start of the hour of the time t, in seconds
TruncatedToHour(t) == t - (t % 3600)

\* The window of the i-th row of the last call holds at least min_actors
\* rows of at least min_actors distinct sources
QualifiesAsAnchor(i) ==
    /\ Cardinality(WindowFrom(i)) >= ret.arg.min_actors
    /\ Cardinality(SourcesOfRows(WindowFrom(i))) >= ret.arg.min_actors

\* C11: the events of one call of detect_coordinated_behavior hold at most
\* one event per hour (the time of the anchor truncated to the hour), the
\* one of the earliest qualifying anchor of that hour, so every hour with a
\* qualifying anchor has its event; and the events are in strictly
\* increasing order of the time of their anchor.
C11_OneEventPerHourEarliestAnchor ==
    Swept =>
        /\ \A k1, k2 \in DOMAIN ret.val :
              k1 < k2 =>
                  /\ ret.val[k1].timestamp < ret.val[k2].timestamp
                  /\ TruncatedToHour(ret.val[k1].timestamp)
                        /= TruncatedToHour(ret.val[k2].timestamp)
        /\ \A k \in DOMAIN ret.val : QualifiesAsAnchor(AnchorIndex(ret.val[k]))
        /\ \A i \in DOMAIN ret.arg.contents :
              QualifiesAsAnchor(i) =>
                  \E k \in DOMAIN ret.val :
                      /\ TruncatedToHour(ret.val[k].timestamp)
                            = TruncatedToHour(ret.arg.contents[i].published_at[1])
                      /\ ret.val[k].timestamp <= ret.arg.contents[i].published_at[1]

\* One event, and a later row of the hour of its anchor that qualifies as an
\* anchor and has no event of its own
C11_Witness ==
    /\ Swept
    /\ Len(ret.val) = 1
    /\ \E i \in DOMAIN ret.arg.contents :
          /\ QualifiesAsAnchor(i)
          /\ ret.arg.contents[i].published_at[1] > ret.val[1].timestamp
          /\ TruncatedToHour(ret.arg.contents[i].published_at[1])
                = TruncatedToHour(ret.val[1].timestamp)

-----------------------------------------------------------------------------
(* get_network_stats *)

\* networkx.density(G) of a directed graph: m / (n (n - 1)), and 0 for a
\* graph without edges or with at most one node
DensityUndirected(g) ==
    LET n == NumberOfNodes(g)
        m == NumberOfEdges(g)
    IN  IF m = 0 \/ n <= 1 THEN Zero ELSE Frac(2 * m, n * (n - 1))

Density(g) ==
    LET n == NumberOfNodes(g)
        m == NumberOfEdges(g)
    IN  IF m = 0 \/ n <= 1 THEN Zero ELSE Frac(m, n * (n - 1))

\* The degree that counts the edges leaving the node alone
DegreeOutOnly(g, n) == Cardinality({e \in Edges(g) : e[1] = n})

\* DiGraph.degree(): in-degree plus out-degree (a self-loop counts twice)
Degree(g, n) ==
    Cardinality({e \in Edges(g) : e[2] = n}) + Cardinality({e \in Edges(g) : e[1] = n})

\* The nodes reached from the nodes of seen along the edges of g
RECURSIVE Reached(_, _)
Reached(g, seen) ==
    LET more == {e[2] : e \in {d \in Edges(g) : d[1] \in seen}} \ seen
    IN  IF more = {} THEN seen ELSE Reached(g, seen \cup more)

\* networkx.is_connected(G) of an undirected graph with nodes: every node
\* is reached from the first one
IsConnected(g) == Reached(g, {g.order[1]}) = Nodes(g)

\* The call of is_connected on the undirected copy ends with its answer or
\* with an exception; on a graph without nodes it raises
\* NetworkXPointlessConcept
ConnectivityOutcomes(g) ==
    IF NumberOfNodes(g) = 0 THEN {Raised}
    ELSE {Raised, Returned(IsConnected(ToUndirected(g)))}

\* The value of a dataclass field after the constructor and the block that
\* fills in the fields of a graph with nodes
AfterTry(initial, outcome) == IF outcome.raised THEN initial ELSE outcome.value

\* get_network_stats without the try around the connectivity check
NetworkStatsUncaught(g, conn) ==
    IF NumberOfNodes(g) > 0 /\ conn.raised THEN Exc("Exception")
    ELSE Ok([node_count |-> NumberOfNodes(g),
             edge_count |-> NumberOfEdges(g),
             density |-> IF NumberOfNodes(g) > 0 THEN Density(g) ELSE Zero,
             community_count |-> 0,
             avg_degree |-> Zero,
             is_connected |-> FALSE])

\* get_network_stats without the test for a graph with nodes before the
\* average: the division by len(degrees) = 0 raises
NetworkStatsUnguarded(g, conn) ==
    IF NumberOfNodes(g) = 0 THEN Exc("ZeroDivisionError")
    ELSE Ok([node_count |-> NumberOfNodes(g),
             edge_count |-> NumberOfEdges(g),
             density |-> Density(g),
             community_count |-> 0,
             avg_degree |-> Frac(SumOver([v \in Nodes(g) |-> Degree(g, v)], Nodes(g)),
                                 NumberOfNodes(g)),
             is_connected |-> AfterTry(FALSE, conn)])

\* The NetworkStats of the graph g; conn is the outcome of the connectivity
\* check, which is made on a graph with nodes only
NetworkStats(g, conn) ==
    LET n == NumberOfNodes(g)
        degrees == [v \in Nodes(g) |-> Degree(g, v)]
    IN  Ok([node_count |-> n,
            edge_count |-> NumberOfEdges(g),
            density |-> IF n > 0 THEN Density(g) ELSE Zero,
            community_count |-> 0,
            avg_degree |-> IF n > 0 THEN Frac(SumOver(degrees, Nodes(g)), n) ELSE Zero,
            is_connected |-> IF n > 0 THEN AfterTry(FALSE, conn) ELSE FALSE])

GetNetworkStats ==
    /\ Idle
    /\ \E conn \in ConnectivityOutcomes(source_graph) :
         ret' = Call("get_network_stats", [graph |-> source_graph, connected |-> conn],
                     NetworkStats(source_graph, conn))
    /\ ReadOnlyStore
    /\ UNCHANGED <<content_graph, source_graph>>

-----------------------------------------------------------------------------
(* The statistics of the source graph of a store snapshot *)

\* Which sources are active: none, one, two or all of them
StatsActiveChoices == {{}, {"s1"}, {"s1", "s2"}, {"s1", "s2", "s3"}}

InitStats ==
    /\ \E active \in StatsActiveChoices, links \in LinkSeqs(OwnershipLinks) :
         /\ sources = SourceRows(active)
         /\ contents = ContentRows([c \in ContentIds |->
                           IF c = "c1" THEN "s1" ELSE IF c = "c2" THEN "s2" ELSE "s3"])
         /\ propagations = PropagationRows(links)
    /\ InitAnalyzer

NextStats ==
    \/ \E d \in DaysBackValues : BuildSourceGraph(d)
    \/ GetNetworkStats
    \/ Return

SpecStats == InitStats /\ [][NextStats]_vars

-----------------------------------------------------------------------------
(* Properties of the statistics *)

Counted == ret.op = "get_network_stats"

\* C12: get_network_stats reports the node and edge counts of the source
\* graph and density = edges / (nodes * (nodes - 1)), the density of a
\* directed graph; the density is 0 for a graph of fewer than 2 nodes, the
\* empty graph with its counts of 0 included, and 1/2 for a graph of 2 nodes
\* and 1 edge.
C12_DensityOfDirectedGraph ==
    Counted =>
        LET n == Cardinality(Nodes(ret.arg.graph))
            m == Cardinality(Edges(ret.arg.graph))
        IN  /\ ret.val.node_count = n
            /\ ret.val.edge_count = m
            /\ n < 2 => ret.val.density = Zero
            /\ n >= 2 => ret.val.density.num * (n * (n - 1)) = m * ret.val.density.den
            /\ (n = 2 /\ m = 1) => ret.val.density = [num |-> 1, den |-> 2]

\* The statistics of a graph of 2 nodes and 1 edge
C12_Witness ==
    /\ Counted
    /\ NumberOfNodes(ret.arg.graph) = 2
    /\ NumberOfEdges(ret.arg.graph) = 1
    /\ ret.val.density = [num |-> 1, den |-> 2]

\* The edges of the graph g that enter the node v, and those that leave it
InEdges(g, v) == {e \in Edges(g) : e[2] = v}

OutEdges(g, v) == {e \in Edges(g) : e[1] = v}

\* C13: get_network_stats reports avg_degree = the sum over the nodes of
\* in-degree + out-degree, divided by the number of nodes, which is
\* 2 * edges / nodes; and 0 for a graph without nodes.
C13_AverageDegree ==
    Counted =>
        LET g == ret.arg.graph
            n == Cardinality(Nodes(g))
            total == SumOver([v \in Nodes(g) |->
                                Cardinality(InEdges(g, v)) + Cardinality(OutEdges(g, v))],
                             Nodes(g))
        IN  /\ n = 0 => ret.val.avg_degree = Zero
            /\ n > 0 =>
                  /\ ret.val.avg_degree.num * n = total * ret.val.avg_degree.den
                  /\ ret.val.avg_degree.num * n = 2 * Cardinality(Edges(g)) * ret.val.avg_degree.den

\* The statistics of a graph in which a node has edges in both directions
C13_Witness ==
    /\ Counted
    /\ \E v \in Nodes(ret.arg.graph) :
          InEdges(ret.arg.graph, v) /= {} /\ OutEdges(ret.arg.graph, v) /= {}
    /\ ret.val.avg_degree /= Zero

\* Every part of the nodes of g is joined to the rest by an edge, in one
\* direction or the other
Undivided(g) ==
    \A S \in SUBSET Nodes(g) :
        (S /= {} /\ S /= Nodes(g)) =>
            \E e \in Edges(g) : (e[1] \in S) /= (e[2] \in S)

\* C14: get_network_stats never raises for the connectivity: is_connected
\* is true exactly when the source graph has nodes, its undirected
\* projection is connected and the connectivity check has not failed; it is
\* false for the empty graph, for a disconnected graph and after a failure
\* of the check.
C14_ConnectivityNeverRaises ==
    Counted =>
        /\ ret.exc = None
        /\ ret.val.is_connected \in BOOLEAN
        /\ ret.val.is_connected <=>
              /\ Nodes(ret.arg.graph) /= {}
              /\ Undivided(ret.arg.graph)
              /\ ~ret.arg.connected.raised

\* The statistics of a connected graph of three nodes whose connectivity
\* check failed
C14_Witness ==
    /\ Counted
    /\ NumberOfNodes(ret.arg.graph) = 3
    /\ Undivided(ret.arg.graph)
    /\ ret.arg.connected.raised
    /\ ~ret.val.is_connected

-----------------------------------------------------------------------------
(* analyze_propagation_patterns *)

PropagationPatterns(days_back) ==
    LET rows  == PropagationsSince(days_back)
        timed == {i \in DOMAIN rows : TruthyNum(rows[i].time_delta_seconds)}
        delta == [i \in timed |-> rows[i].time_delta_seconds[1]]
    IN  IF rows = <<>> THEN [total |-> 0, patterns |-> EmptyDict]
        ELSE [total |-> Len(rows),
              by_type |-> [t \in {rows[i].propagation_type : i \in DOMAIN rows} |->
                              Cardinality({i \in DOMAIN rows : rows[i].propagation_type = t})],
              mutations |-> Cardinality({i \in DOMAIN rows : rows[i].mutation_detected}),
              avg_time_delta |-> IF timed /= {}
                                 THEN Frac(SumOver(delta, timed), Cardinality(timed))
                                 ELSE Zero,
              fast_propagation |-> Cardinality({i \in timed : delta[i] < 3600}),
              same_day |-> Cardinality({i \in timed : delta[i] < 86400})]

AnalyzePropagationPatterns(days_back) ==
    /\ Idle
    /\ ret' = Call("analyze_propagation_patterns", [days_back |-> days_back],
                    Ok(PropagationPatterns(days_back)))
    /\ ReadOnlyStore
    /\ UNCHANGED <<content_graph, source_graph>>

-----------------------------------------------------------------------------
(* export_to_gexf: the directory is made and the file is written, or the   *)
(* file system refuses and the OSError leaves the call                     *)

ExportOutcomes == {Raised, Returned("exports/graphs/source_network.gexf")}

\* An export that answers with no path when the file is not written
ExportToGexfSwallowed(graph, written) ==
    IF written.raised THEN Ok(None) ELSE Ok(written.value)

ExportToGexf(graph, written) ==
    IF written.raised THEN Exc("OSError") ELSE Ok(written.value)

-----------------------------------------------------------------------------
(* run_full_analysis *)

\* find_superspreaders(top_n=20)
FullAnalysisTopN == 20

\* The defaults of detect_coordinated_behavior
DefaultTimeWindowSeconds == 300

DefaultMinActors == 3

\* A library call that the run does not make
NotCalled == Returned(EmptyDict)

\* The outcomes of the library calls and of the queries of a run on the
\* source graph sg: pagerank and betweenness of find_superspreaders, the
\* connectivity check, best_partition on a graph of more than 2 nodes, the
\* order in which the database returns the content, and the export of a
\* graph with nodes
RunOutcomes(sg) ==
    [pagerank : PageRankOutcomes(sg),
     betweenness : {Raised, Returned(BetweennessCentrality(sg))},
     connected : ConnectivityOutcomes(sg),
     partition : IF NumberOfNodes(sg) > 2 THEN BestPartitionOutcomes(ToUndirected(sg))
                                           ELSE {NotCalled},
     rows : {[i \in DOMAIN q |-> contents[q[i]]] : q \in ContentsByTime},
     written : IF NumberOfNodes(sg) > 0 THEN ExportOutcomes ELSE {NotCalled}]

\* The result of the run from the statement that assembles results on, the
\* two graphs being built: sg is the source graph
FullAnalysis(sg, days_back, lib) ==
    LET stats == NetworkStats(sg, lib.connected)
        results ==
            [timestamp |-> Now,
             period_days |-> days_back,
             stats |-> stats.val,
             superspreaders |->
                 Superspreaders(sg, FullAnalysisTopN, lib.pagerank, lib.betweenness).val,
             propagation_patterns |-> PropagationPatterns(days_back),
             coordinated_behavior |->
                 CoordinatedBehavior(lib.rows, DefaultTimeWindowSeconds, DefaultMinActors).val]
        partition == Communities(ToUndirected(sg), lib.partition).val
        with_communities ==
            IF NumberOfNodes(sg) > 2
            THEN DictUpdate(results,
                     [communities |->
                         [count |-> Cardinality({partition[v] : v \in DOMAIN partition}),
                          partition |-> partition]])
            ELSE results
        exported == ExportToGexf(sg, lib.written)
    IN  IF stats.exc /= None THEN Exc(stats.exc)
        ELSE IF NumberOfNodes(sg) > 0
        THEN IF exported.exc /= None THEN Exc(exported.exc)
             ELSE Ok(DictUpdate(with_communities,
                                [exports |-> [source_network |-> exported.val]]))
        ELSE Ok(with_communities)

RunFullAnalysis(days_back) ==
    /\ Idle
    /\ LET cg == BuiltContentGraph(days_back, DefaultMinSimilarity)
           sg == BuiltSourceGraph(days_back)
       IN  \E lib \in RunOutcomes(sg) :
            /\ content_graph' = cg
            /\ source_graph' = sg
            /\ ret' = Call("run_full_analysis", [days_back |-> days_back, lib |-> lib],
                            FullAnalysis(sg, days_back, lib))
    /\ ReadOnlyStore

-----------------------------------------------------------------------------
(* AnalysisOrchestrator._run_network_analysis on its NetworkAnalyzer *)

\* AnalysisConfig.network_lookback_days
NetworkLookbackDays == 30

AnalysisMetrics(analyzer_name) ==
    [analyzer_name |-> analyzer_name, items_processed |-> 0, items_flagged |-> 0,
     error_count |-> 0, warnings |-> <<>>]

\* The pair (result, metrics) for the way run_full_analysis ended
NetworkAnalysisResult(analysis) ==
    LET metrics == AnalysisMetrics("network")
    IN  IF analysis.exc = None
        THEN [result |-> analysis.val,
              metrics |-> [metrics EXCEPT
                              !.items_processed = DictGet(analysis.val, "node_count", 0)]]
        ELSE [result |-> EmptyDict,
              metrics |-> [metrics EXCEPT
                              !.error_count = metrics.error_count + 1,
                              !.warnings = Append(metrics.warnings, analysis.exc)]]

RunNetworkAnalysis ==
    /\ Idle
    /\ LET cg == BuiltContentGraph(NetworkLookbackDays, DefaultMinSimilarity)
           sg == BuiltSourceGraph(NetworkLookbackDays)
       IN  \E lib \in RunOutcomes(sg) :
            /\ content_graph' = cg
            /\ source_graph' = sg
            /\ ret' = Call("_run_network_analysis", [lib |-> lib],
                            Ok(NetworkAnalysisResult(
                                   FullAnalysis(sg, NetworkLookbackDays, lib))))
    /\ ReadOnlyStore

-----------------------------------------------------------------------------
(* The full analysis on a store snapshot *)

\* The links of the store: none, one old row, one recent row, two recent
\* rows between three sources
RunLinkChoices ==
    {<<>>,
     <<[src |-> "c1", tgt |-> "c2", sim |-> NoNum, created |-> 5]>>,
     <<[src |-> "c1", tgt |-> "c2", sim |-> NoNum, created |-> 39]>>,
     <<[src |-> "c1", tgt |-> "c2", sim |-> NoNum, created |-> 39],
       [src |-> "c2", tgt |-> "c3", sim |-> Num(5), created |-> 39]>>}

\* The seconds of a day
SecondsPerDay == 86400

\* A burst of the three content rows, 10 s apart, in the first minute of
\* the day
BurstOnDay(day) ==
    [c \in ContentIds |->
        Num(day * SecondsPerDay + (IF c = "c1" THEN 0 ELSE IF c = "c2" THEN 10 ELSE 20))]

\* published_at of the three content rows, in seconds on the clock of
\* created_at: none, a burst on day 0, long before every window, or a
\* burst on the last day
RunPublishedChoices == {[c \in ContentIds |-> NoNum], BurstOnDay(0), BurstOnDay(Now - 1)}

InitRun ==
    /\ \/ /\ sources = <<>>
          /\ contents = EmptyDict
          /\ propagations = <<>>
       \/ \E active \in StatsActiveChoices, links \in RunLinkChoices,
             published \in RunPublishedChoices :
            /\ sources = SourceRows(active)
            /\ contents = [c \in ContentIds |->
                              ContentRow(c, IF c = "c1" THEN "s1"
                                            ELSE IF c = "c2" THEN "s2" ELSE "s3",
                                         published[c])]
            /\ propagations = PropagationRows(links)
    /\ InitAnalyzer

NextRun ==
    \/ \E d \in DaysBackValues : RunFullAnalysis(d)
    \/ RunNetworkAnalysis
    \/ BuildContentGraph(DefaultDaysBack, DefaultMinSimilarity)
    \/ BuildSourceGraph(DefaultDaysBack)
    \/ AnalyzePropagationPatterns(DefaultDaysBack)
    \/ DetectCoordinatedBehavior(DefaultTimeWindowSeconds, DefaultMinActors)
    \/ Return

SpecRun == InitRun /\ [][NextRun]_vars

-----------------------------------------------------------------------------
(* Properties of the full analysis *)

FullRun == ret.op = "run_full_analysis"

\* The run has detected communities: its result has a partition with a
\* community in it
DetectedCommunities ==
    /\ FullRun
    /\ ret.exc = None
    /\ "communities" \in DOMAIN ret.val
    /\ ret.val.communities.partition /= EmptyDict

\* C15: in the result of a full analysis run that detected communities,
\* stats.community_count is the number of distinct community ids of the
\* partition of the run.
C15_CommunityCountInStats ==
    DetectedCommunities =>
        ret.val.stats.community_count
            = Cardinality({ret.val.communities.partition[v] :
                              v \in DOMAIN ret.val.communities.partition})

\* The queries of the run return no active source, no propagation row of
\* the window and no content with a publication time
NothingReturned ==
    /\ ActiveSources = <<>>
    /\ PropagationsSince(ret.arg.days_back) = <<>>
    /\ \A c \in DOMAIN contents : contents[c].published_at = NoNum

\* C16: run_full_analysis on a store that returns no sources, no
\* propagation links and no content does not raise: the two graphs are
\* empty and the record has node_count 0, edge_count 0, density 0, an empty
\* superspreader list and an empty coordinated-behavior list.
C16_EmptyStoreGivesEmptyRecord ==
    (FullRun /\ NothingReturned) =>
        /\ ret.exc = None
        /\ Nodes(content_graph) = {} /\ Edges(content_graph) = {}
        /\ Nodes(source_graph) = {} /\ Edges(source_graph) = {}
        /\ ret.val.period_days = ret.arg.days_back
        /\ ret.val.stats.node_count = 0
        /\ ret.val.stats.edge_count = 0
        /\ ret.val.stats.density = Zero
        /\ ret.val.superspreaders = <<>>
        /\ ret.val.coordinated_behavior = <<>>

\* A run on the store without any row
C16_Witness ==
    /\ FullRun
    /\ sources = <<>> /\ contents = EmptyDict /\ propagations = <<>>
    /\ ret.exc = None
    /\ ret.val.stats.node_count = 0

\* The export of the last run, a full run or the orchestrator's, failed to
\* write its file
ExportFailed ==
    /\ ret.op \in {"run_full_analysis", "_run_network_analysis"}
    /\ ret.arg.lib.written.raised

\* C18: a failure to write the exported file is not swallowed:
\* run_full_analysis ends with the exception and no result, and
\* _run_network_analysis returns no result of the analysis and metrics with
\* error_count 1 and the message of the exception among the warnings.
C18_ExportFailureReported ==
    /\ (FullRun /\ ExportFailed) =>
          /\ ret.exc = "OSError"
          /\ ret.val = EmptyDict
    /\ (ret.op = "_run_network_analysis" /\ ExportFailed) =>
          /\ ret.val.result = EmptyDict
          /\ ret.val.metrics.error_count = 1
          /\ ret.val.metrics.warnings = <<"OSError">>

\* A run of the orchestrator whose export failed
C18_Witness ==
    /\ ret.op = "_run_network_analysis"
    /\ ExportFailed
    /\ NumberOfNodes(source_graph) = 3
    /\ ret.val.metrics.error_count = 1

\* C20: no call writes to the store: over run_full_analysis,
\* build_content_graph, build_source_graph, detect_coordinated_behavior and
\* analyze_propagation_patterns the sources, contents and propagation rows
\* of the store stay as they are.
C20_StoreUnchanged ==
    [][/\ sources' = sources
       /\ contents' = contents
       /\ propagations' = propagations]_vars

\* A full run that built the graphs of a store with rows and exported the
\* source graph
C20_Witness ==
    /\ FullRun
    /\ ret.exc = None
    /\ "exports" \in DOMAIN ret.val
    /\ propagations /= <<>>
    /\ NumberOfEdges(source_graph) > 0
    /\ ret.val.coordinated_behavior /= <<>>

-----------------------------------------------------------------------------
(* Runs on one instance while the store changes between them.  The schema  *)
(* lets a source row be deleted: the content rows it owned stay with       *)
(* source_id NULL (ON DELETE SET NULL)                                     *)

RECURSIVE WithoutSource(_, _)
WithoutSource(rows, id) ==
    IF rows = <<>> THEN <<>>
    ELSE IF Head(rows).id = id THEN WithoutSource(Tail(rows), id)
         ELSE <<Head(rows)>> \o WithoutSource(Tail(rows), id)

\* A source that an earlier run has put in the source graph is deleted
\* from the store
DeleteSource(id) ==
    /\ Idle
    /\ \E i \in DOMAIN sources : sources[i].id = id
    /\ id \in Nodes(source_graph)
    /\ sources' = WithoutSource(sources, id)
    /\ contents' = [c \in DOMAIN contents |->
                       IF contents[c].source_id = id
                       THEN [contents[c] EXCEPT !.source_id = None]
                       ELSE contents[c]]
    /\ UNCHANGED <<propagations, content_graph, source_graph, ret, instances, threads,
                   collector, pool>>

\* The links of the store, between the content of two sources: none, an old
\* row, a recent row, a recent and an old row of one pair, two opposite rows
RebuildLinkChoices ==
    {<<>>,
     <<[src |-> "c1", tgt |-> "c2", sim |-> NoNum, created |-> 5]>>,
     <<[src |-> "c1", tgt |-> "c2", sim |-> NoNum, created |-> 39]>>,
     <<[src |-> "c1", tgt |-> "c2", sim |-> Num(5), created |-> 39],
       [src |-> "c1", tgt |-> "c2", sim |-> NoNum, created |-> 5]>>,
     <<[src |-> "c1", tgt |-> "c2", sim |-> NoNum, created |-> 39],
       [src |-> "c2", tgt |-> "c1", sim |-> NoNum, created |-> 39]>>}

InitRebuild ==
    /\ \E links \in RebuildLinkChoices :
         /\ sources = <<SourceRow("s1", TRUE), SourceRow("s2", TRUE)>>
         /\ contents = [c \in ContentIds |->
                           ContentRow(c, IF c = "c1" THEN "s1" ELSE "s2", NoNum)]
         /\ propagations = PropagationRows(links)
    /\ InitAnalyzer

NextRebuild ==
    \/ \E d \in DaysBackValues : BuildContentGraph(d, DefaultMinSimilarity)
    \/ \E d \in DaysBackValues : BuildSourceGraph(d)
    \/ \E d \in DaysBackValues : RunFullAnalysis(d)
    \/ \E id \in SourceIds : DeleteSource(id)
    \/ Return

SpecRebuild == InitRebuild /\ [][NextRebuild]_vars

-----------------------------------------------------------------------------
(* Properties of repeated runs *)

\* C17: whatever the instance has built before, a build and a full run
\* yield the graphs that a new instance builds from the current store and
\* window, and the statistics of that source graph, so that repeated runs
\* on an unchanged store and window yield the same graphs and statistics:
\* the weight of an edge is the number of rows of the window, not a sum over
\* runs, and no node or edge that the store no longer supports is left.
C17_RebuildEqualsFreshBuild ==
    /\ ret.op = "build_content_graph" =>
          /\ ret.val = content_graph
          /\ content_graph
                = ContentGraphFrom(EmptyGraph, ret.arg.days_back, ret.arg.min_similarity)
    /\ ret.op = "build_source_graph" =>
          /\ ret.val = source_graph
          /\ source_graph = SourceGraphFrom(EmptyGraph, ret.arg.days_back)
          /\ \A e \in Edges(source_graph) :
                source_graph.edge[e].weight
                    = Cardinality(LinksBetween(e[1], e[2], ret.arg.days_back))
    /\ FullRun =>
          /\ content_graph
                = ContentGraphFrom(EmptyGraph, ret.arg.days_back, DefaultMinSimilarity)
          /\ source_graph = SourceGraphFrom(EmptyGraph, ret.arg.days_back)
          /\ ret.exc = None =>
                ret.val.stats
                    = NetworkStats(SourceGraphFrom(EmptyGraph, ret.arg.days_back),
                                   ret.arg.lib.connected).val

\* The source graph rebuilt after the deletion of a source that an earlier
\* run had put in it, while the content graph still has an edge of the
\* earlier run
C17_Witness ==
    /\ ret.op = "build_source_graph"
    /\ Len(sources) = 1
    /\ NumberOfNodes(source_graph) = 1
    /\ NumberOfEdges(content_graph) > 0

-----------------------------------------------------------------------------
(* Concurrent runs.  A thread runs the pipeline on an instance: it builds  *)
(* the content graph, builds the source graph and takes the statistics.    *)
(* The statements between two queries are one step: clear, the query and   *)
(* the loop of the content graph, clear, the query and the loop of the     *)
(* nodes, the query and the loops of the edges, the statistics.            *)

\* The graphs as attributes of the class, shared by its instances
ClassAttributes(instance) == "a"

\* self.content_graph and self.source_graph are attributes of the instance,
\* set by __init__: they live with the instance
InstanceAttributes(instance) == instance

\* NetworkAnalyzer()
NewAnalyzer == [content_graph |-> EmptyGraph, source_graph |-> EmptyGraph]

\* self of the thread t
Self(t) == InstanceAttributes(threads[t].instance)

At(t, pc) == threads[t].pc = pc

\* The thread t writes the graphs of its instance and moves to pc; a run
\* that is under way on the same instance has then been overlapped by a
\* write of another run
Goto(t, pc) ==
    threads' = [u \in DOMAIN threads |->
                   IF u = t THEN [threads[u] EXCEPT !.pc = pc]
                   ELSE IF Self(u) = Self(t) /\ threads[u].pc \notin {"start", "done"}
                        THEN [threads[u] EXCEPT !.overlapped = TRUE]
                        ELSE threads[u]]

ClearContentGraph(t) ==
    /\ At(t, "start")
    /\ instances' = [instances EXCEPT
                        ![Self(t)].content_graph = Clear(instances[Self(t)].content_graph)]
    /\ Goto(t, "content_cleared")
    /\ StoreRead
    /\ UNCHANGED <<content_graph, source_graph, ret, collector, pool>>

FillContentGraph(t) ==
    /\ At(t, "content_cleared")
    /\ instances' = [instances EXCEPT
                        ![Self(t)].content_graph =
                            ContentGraphFrom(instances[Self(t)].content_graph,
                                             threads[t].days_back, DefaultMinSimilarity)]
    /\ Goto(t, "content_built")
    /\ StoreRead
    /\ UNCHANGED <<content_graph, source_graph, ret, collector, pool>>

ClearSourceGraph(t) ==
    /\ At(t, "content_built")
    /\ instances' = [instances EXCEPT
                        ![Self(t)].source_graph = Clear(instances[Self(t)].source_graph)]
    /\ Goto(t, "source_cleared")
    /\ StoreRead
    /\ UNCHANGED <<content_graph, source_graph, ret, collector, pool>>

AddNodes(t) ==
    /\ At(t, "source_cleared")
    /\ instances' = [instances EXCEPT
                        ![Self(t)].source_graph =
                            AddSourceNodes(instances[Self(t)].source_graph, ActiveSources)]
    /\ Goto(t, "nodes_added")
    /\ StoreRead
    /\ UNCHANGED <<content_graph, source_graph, ret, collector, pool>>

AddEdges(t) ==
    /\ At(t, "nodes_added")
    /\ instances' = [instances EXCEPT
                        ![Self(t)].source_graph =
                            SourceEdgesFrom(instances[Self(t)].source_graph,
                                            threads[t].days_back)]
    /\ Goto(t, "source_built")
    /\ StoreRead
    /\ UNCHANGED <<content_graph, source_graph, ret, collector, pool>>

TakeStats(t) ==
    /\ At(t, "source_built")
    /\ \E conn \in ConnectivityOutcomes(instances[Self(t)].source_graph) :
         threads' = [threads EXCEPT
                        ![t].pc = "done",
                        ![t].connected = conn,
                        ![t].observed = instances[Self(t)],
                        ![t].stats = NetworkStats(instances[Self(t)].source_graph, conn).val]
    /\ StoreRead
    /\ UNCHANGED <<instances, content_graph, source_graph, ret, collector, pool>>

Step(t) ==
    \/ ClearContentGraph(t)
    \/ FillContentGraph(t)
    \/ ClearSourceGraph(t)
    \/ AddNodes(t)
    \/ AddEdges(t)
    \/ TakeStats(t)

\* A thread at the start of its run on the instance, with its window
Thread(instance, days_back) ==
    [instance |-> instance, pc |-> "start", days_back |-> days_back,
     connected |-> NotCalled, stats |-> EmptyDict,
     observed |-> NewAnalyzer, overlapped |-> FALSE]

\* Two instances, and one thread on each
InitTwo ==
    /\ \E active \in {{"s1", "s2", "s3"}, {"s1", "s2"}}, links \in RunLinkChoices :
         /\ sources = SourceRows(active)
         /\ contents = [c \in ContentIds |->
                           ContentRow(c, IF c = "c1" THEN "s1"
                                         ELSE IF c = "c2" THEN "s2" ELSE "s3", NoNum)]
         /\ propagations = PropagationRows(links)
    /\ content_graph = EmptyGraph
    /\ source_graph = EmptyGraph
    /\ ret = NoCall
    /\ instances = [i \in {"a", "b"} |-> NewAnalyzer]
    /\ collector = NoCollector
    /\ pool = NoPool
    /\ \E d1 \in DaysBackValues, d2 \in DaysBackValues :
         threads = [t \in {"t1", "t2"} |->
                       IF t = "t1" THEN Thread("a", d1) ELSE Thread("b", d2)]

NextTwo == \E t \in DOMAIN threads : Step(t)

SpecTwo == InitTwo /\ [][NextTwo]_vars

-----------------------------------------------------------------------------
(* Properties of concurrent runs *)

\* The graphs of an instance whose run is at pc, by the reads of that run
\* and its window alone
GraphsOfRunAlone(pc, days_back) ==
    LET cg    == ContentGraphFrom(EmptyGraph, days_back, DefaultMinSimilarity)
        nodes == AddSourceNodes(EmptyGraph, ActiveSources)
    IN  [content_graph |->
            IF pc \in {"start", "content_cleared"} THEN EmptyGraph ELSE cg,
         source_graph |->
            IF pc \in {"start", "content_cleared", "content_built", "source_cleared"}
            THEN EmptyGraph
            ELSE IF pc = "nodes_added" THEN nodes
            ELSE SourceEdgesFrom(nodes, days_back)]

\* C19: two runs on two distinct instances do not interfere, whatever the
\* interleaving of their steps: at every point the graphs of an instance
\* are those that its own run has built so far from its own reads and its
\* own window, and the statistics of a run are those of its own source
\* graph.
C19_RunsOnTwoInstancesDoNotInterfere ==
    \A t \in DOMAIN threads :
        /\ instances[threads[t].instance]
              = GraphsOfRunAlone(threads[t].pc, threads[t].days_back)
        /\ threads[t].pc = "done" =>
              threads[t].stats
                  = NetworkStats(GraphsOfRunAlone("done", threads[t].days_back).source_graph,
                                 threads[t].connected).val

\* One run is done and the other, with another window, is between its
\* clear and the edges of its source graph, and the graphs of the two
\* instances differ
C19_Witness ==
    /\ DOMAIN threads = {"t1", "t2"}
    /\ threads["t1"].pc = "done"
    /\ threads["t2"].pc = "nodes_added"
    /\ threads["t1"].days_back /= threads["t2"].days_back
    /\ instances["a"].content_graph /= instances["b"].content_graph
    /\ NumberOfEdges(instances["a"].source_graph) > 0

-----------------------------------------------------------------------------
(* Two runs on one instance, as two concurrent calls of the analysis of    *)
(* one orchestrator make them                                              *)

InitShared ==
    /\ \E active \in {{"s1", "s2", "s3"}, {"s1", "s2"}}, links \in RunLinkChoices :
         /\ sources = SourceRows(active)
         /\ contents = [c \in ContentIds |->
                           ContentRow(c, IF c = "c1" THEN "s1"
                                         ELSE IF c = "c2" THEN "s2" ELSE "s3", NoNum)]
         /\ propagations = PropagationRows(links)
    /\ content_graph = EmptyGraph
    /\ source_graph = EmptyGraph
    /\ ret = NoCall
    /\ instances = [i \in {"a"} |-> NewAnalyzer]
    /\ collector = NoCollector
    /\ pool = NoPool
    /\ \E d1 \in DaysBackValues, d2 \in DaysBackValues :
         threads = [t \in {"t1", "t2"} |->
                       IF t = "t1" THEN Thread("a", d1) ELSE Thread("a", d2)]

NextShared == \E t \in DOMAIN threads : Step(t)

SpecShared == InitShared /\ [][NextShared]_vars

\* The graphs that a run with the window days_back leaves when it runs alone
SequentialResult(days_back) == GraphsOfRunAlone("done", days_back)

\* C25: one instance is not safe for two interleaved runs.  The graphs that
\* a finished run has read for its results differ from its sequential
\* result only when a write of the other run on the same instance fell
\* into it; the state in which they match the sequential result of neither
\* run is reachable (C25_Witness).
C25_OnlyInterleavingBreaksARun ==
    \A t \in DOMAIN threads :
        (threads[t].pc = "done" /\ ~threads[t].overlapped) =>
            /\ threads[t].observed = SequentialResult(threads[t].days_back)
            /\ threads[t].stats
                  = NetworkStats(SequentialResult(threads[t].days_back).source_graph,
                                 threads[t].connected).val

\* A finished run, overlapped by a run with another window on the same
\* instance, has read a source graph that is the sequential result of
\* neither of the two runs
C25_Witness ==
    \E t, u \in DOMAIN threads :
        /\ t /= u
        /\ threads[t].instance = threads[u].instance
        /\ threads[t].days_back /= threads[u].days_back
        /\ threads[t].pc = "done"
        /\ threads[t].overlapped
        /\ threads[t].observed.source_graph
              /= SequentialResult(threads[t].days_back).source_graph
        /\ threads[t].observed.source_graph
              /= SequentialResult(threads[u].days_back).source_graph
        /\ threads[t].stats.node_count
              /= NumberOfNodes(SequentialResult(threads[t].days_back).source_graph)
        /\ threads[t].stats.node_count
              /= NumberOfNodes(SequentialResult(threads[u].days_back).source_graph)

\* The start of the window of the last run, in seconds
WindowStart == (Now - ret.arg.days_back) * SecondsPerDay

\* C21: in a full run with a window of D days the coordination detection
\* runs over the content of the window: no event is anchored at a content
\* row published before the window and no such row is among the rows an
\* event counts.
C21_CoordinationOverWindowOnly ==
    (FullRun /\ ret.exc = None) =>
        \A k \in DOMAIN ret.val.coordinated_behavior :
            LET e == ret.val.coordinated_behavior[k]
            IN  /\ e.timestamp >= WindowStart
                /\ \A n \in DOMAIN e.content_ids :
                      contents[e.content_ids[n]].published_at[1] >= WindowStart

-----------------------------------------------------------------------------
(* Properties of the nodes of the source graph *)

DisplayAttributes == {"name", "source_type", "language", "is_doppelganger", "is_amplifier"}

\* The row of the source id in the store
SourceOf(id) == sources[CHOOSE i \in DOMAIN sources : sources[i].id = id]

\* C22: after build_source_graph every active source is a node of the
\* source graph, with or without a propagation row, and every node of the
\* graph, the endpoints of the edges included, has the display attributes
\* of its source: name, source_type, language, is_doppelganger and
\* is_amplifier.
C22_EveryNodeHasDisplayAttributes ==
    ret.op = "build_source_graph" =>
        /\ \A i \in DOMAIN sources : sources[i].is_active => sources[i].id \in Nodes(ret.val)
        /\ \A v \in Nodes(ret.val) :
              /\ DOMAIN ret.val.node[v] = DisplayAttributes
              /\ ret.val.node[v].name = SourceOf(v).name
              /\ ret.val.node[v].source_type = SourceOf(v).source_type
              /\ ret.val.node[v].is_doppelganger = SourceOf(v).is_doppelganger
              /\ ret.val.node[v].is_amplifier = SourceOf(v).is_amplifier

-----------------------------------------------------------------------------
(* Properties of the window and the events of the coordination detector *)

\* The content rows of the store without a publication time
Untimed == {c \in DOMAIN contents : contents[c].published_at = NoNum}

\* The ids of the rows of the last call at the places js
IdsOfRows(js) == {ret.arg.contents[j].id : j \in js}

\* The ids that the event e lists
ListedIds(e) == {e.content_ids[n] : n \in DOMAIN e.content_ids}

\* C23: the window grown from the anchor at place i holds exactly the rows
\* with a publication time at the places >= i whose time is at most
\* window_seconds after the time of the anchor, a row exactly
\* window_seconds after it included; content_count of an event is the size
\* of this window, and a row without a publication time is in no window.
C23_WindowIsInclusiveRange ==
    Swept =>
        /\ \A j \in DOMAIN ret.arg.contents : ret.arg.contents[j].id \notin Untimed
        /\ \A k \in DOMAIN ret.val :
              LET e == ret.val[k]
                  w == {j \in DOMAIN ret.arg.contents :
                          /\ j >= AnchorIndex(e)
                          /\ ret.arg.contents[j].published_at[1]
                                <= e.timestamp + ret.arg.time_window_seconds}
              IN  /\ e.content_count = Cardinality(w)
                  /\ Cardinality(w) <= 10 => ListedIds(e) = IdsOfRows(w)
                  /\ ListedIds(e) \cap Untimed = {}

\* An event whose window ends with a row exactly window_seconds after the
\* anchor, in a store that also holds a row without a publication time
C23_Witness ==
    /\ Swept
    /\ Untimed /= {}
    /\ \E k \in DOMAIN ret.val :
          \E j \in DOMAIN ret.arg.contents :
              /\ ret.arg.contents[j].published_at[1]
                    = ret.val[k].timestamp + ret.arg.time_window_seconds
              /\ ret.arg.contents[j].id \in ListedIds(ret.val[k])

-----------------------------------------------------------------------------
(* The coordination detector on a long burst: rows at equal distances, of  *)
(* the three sources in turn                                               *)

MaxBurst == 11

BurstNames ==
    <<"c01", "c02", "c03", "c04", "c05", "c06", "c07", "c08", "c09", "c10", "c11", "c12">>

\* The seconds between two rows of the burst
BurstSteps == {1, 5, 30}

\* The sources of the rows: the three in turn, or two in turn
BurstSourceCounts == {2, 3}

InitBurst ==
    /\ sources = SourceRows({"s1", "s2", "s3"})
    /\ \E n \in 0..MaxBurst, step \in BurstSteps, k \in BurstSourceCounts :
         contents = [c \in {BurstNames[i] : i \in 1..n} |->
                        LET i == CHOOSE j \in 1..n : BurstNames[j] = c
                        IN  ContentRow(c, IF (i - 1) % k = 0 THEN "s1"
                                          ELSE IF (i - 1) % k = 1 THEN "s2" ELSE "s3",
                                       Num((i - 1) * step))]
    /\ propagations = <<>>
    /\ InitAnalyzer

NextBurst ==
    \/ \E w \in TimeWindowValues, m \in MinActorsValues : DetectCoordinatedBehavior(w, m)
    \/ Return

SpecBurst == InitBurst /\ [][NextBurst]_vars

\* C24: every event of detect_coordinated_behavior has
\* min_actors <= unique_sources <= content_count, window_seconds equal to
\* the requested window, the publication time of its anchor as timestamp,
\* and min(10, content_count) content ids: the ids of the rows of the call
\* from the anchor on, in their order.
C24_EventFields ==
    Swept =>
        \A k \in DOMAIN ret.val :
            LET e == ret.val[k]
                listed == IF e.content_count < 10 THEN e.content_count ELSE 10
            IN  /\ ret.arg.min_actors <= e.unique_sources
                /\ e.unique_sources <= e.content_count
                /\ e.window_seconds = ret.arg.time_window_seconds
                /\ DOMAIN e.content_ids = 1..listed
                /\ \E a \in DOMAIN ret.arg.contents :
                      /\ ret.arg.contents[a].published_at[1] = e.timestamp
                      /\ a + listed - 1 <= Len(ret.arg.contents)
                      /\ \A n \in 1..listed : e.content_ids[n] = ret.arg.contents[a + n - 1].id

\* An event that counts more than 10 rows
C24_Witness ==
    /\ Swept
    /\ \E k \in DOMAIN ret.val :
          /\ ret.val[k].content_count > 10
          /\ Len(ret.val[k].content_ids) = 10

-----------------------------------------------------------------------------
(* AnalysisOrchestrator.analyze of an orchestrator whose only analyzer is  *)
(* the NetworkAnalyzer: the other analyzers are None, their steps skipped  *)

\* len(contents) of the calls
ContentCountValues == {0, 2}

\* time.time() - start_time, in seconds
ElapsedValues == {0, 1}

\* UnifiedAnalysisResult(content_count=..., config_used=...)
UnifiedAnalysisResult(content_count) ==
    [content_count |-> content_count, nlp_results |-> None,
     cib_results |-> None, topic_results |-> None, network_results |-> None,
     metrics |-> EmptyDict, alerts |-> <<>>, total_processing_time |-> 0]

\* _generate_alerts: each group of alerts is under the test of the results
\* of its analyzer; the results of the network analysis raise none
GenerateAlerts(result) ==
    IF /\ result.cib_results = None
       /\ result.topic_results = None
       /\ result.nlp_results \in {None, EmptyDict}
    THEN <<>>
    ELSE <<"alerts of the other analyzers">>

\* The result of analyze for the way run_full_analysis ended
AnalysisResult(content_count, analysis, elapsed) ==
    LET result  == UnifiedAnalysisResult(content_count)
        network == NetworkAnalysisResult(analysis)
        after   == [result EXCEPT
                       !.network_results = network.result,
                       !.metrics = [n \in {"network"} |-> network.metrics]]
        alerted == [after EXCEPT !.alerts = GenerateAlerts(after)]
    IN  [alerted EXCEPT !.total_processing_time = elapsed]

Analyze(content_count) ==
    /\ Idle
    /\ LET cg == BuiltContentGraph(NetworkLookbackDays, DefaultMinSimilarity)
           sg == BuiltSourceGraph(NetworkLookbackDays)
       IN  \E lib \in RunOutcomes(sg), elapsed \in ElapsedValues :
            /\ content_graph' = cg
            /\ source_graph' = sg
            /\ ret' = Call("analyze", [content_count |-> content_count, lib |-> lib],
                            Ok(AnalysisResult(content_count,
                                              FullAnalysis(sg, NetworkLookbackDays, lib),
                                              elapsed)))
    /\ ReadOnlyStore

NextAnalyze ==
    \/ \E n \in ContentCountValues : Analyze(n)
    \/ Return

SpecAnalyze == InitRun /\ [][NextAnalyze]_vars

\* The way the run_full_analysis of the last analyze ended
AnalysisOfLastCall == FullAnalysis(source_graph, NetworkLookbackDays, ret.arg.lib)

\* C30: when the network analysis of analyze succeeds, the "network"
\* metrics have items_processed equal to the number of nodes of the analysed
\* source graph (node_count of the statistics) and error_count 0; when it
\* raises, they have error_count 1, the network result is empty, and analyze
\* still returns its result with the alerts and the time.
C30_NetworkMetrics ==
    ret.op = "analyze" =>
        /\ ret.exc = None
        /\ ret.val.alerts = <<>>
        /\ ret.val.total_processing_time \in ElapsedValues
        /\ IF AnalysisOfLastCall.exc = None
           THEN /\ ret.val.metrics["network"].items_processed
                      = NumberOfNodes(source_graph)
                /\ ret.val.metrics["network"].items_processed
                      = ret.val.network_results.stats.node_count
                /\ ret.val.metrics["network"].error_count = 0
           ELSE /\ ret.val.metrics["network"].error_count = 1
                /\ ret.val.network_results = EmptyDict

-----------------------------------------------------------------------------
(* The collectors (src/collectors/base.py, media_collector.py,             *)
(* telegram_collector.py).  A collector owns a session on the store.  The  *)
(* session was made with autoflush=False: a query reads the rows of the    *)
(* database and not the objects that were added and are not yet flushed.   *)
(* The content rows of the collectors carry their text_hash.  The source   *)
(* row of every feed and channel exists, so get_or_create_source finds it. *)

MaxRows == 2

\* The places of the table of runs: a run and a run before it
RunPlaces == {1, 2}

\* The places of the list of errors that a single record_error fills
ErrorPlaces == {1}

TextHashes == {"h1", "h2"}

\* BaseCollector.__init__, with the tables the session writes.  run is the
\* place of self.run in the table of runs, 0 for None.  created counts the
\* Content objects made, for their ids; at_start keeps the ids of the
\* content rows of the store at the start of the run.
NewCollector(collector_type) ==
    [collector_type |-> collector_type, run |-> 0, runs |-> <<>>, pending |-> <<>>,
     items_new |-> 0, items_updated |-> 0, errors |-> <<>>,
     created |-> 0, at_start |-> {}]

\* Content(source_id=..., text_hash=..., ...): the id is a new uuid
CollectedContent(id, text_hash) ==
    [id |-> id, source_id |-> "s1", published_at |-> NoNum, text_hash |-> text_hash]

\* The store and the collector as the operations of a collector see them
World == [contents |-> contents, c |-> collector]

\* session.commit(): the pending objects become rows
SessionCommitted(w) ==
    LET new == {w.c.pending[i].id : i \in DOMAIN w.c.pending}
    IN  [contents |-> [id \in DOMAIN w.contents \cup new |->
                          IF id \in DOMAIN w.contents THEN w.contents[id]
                          ELSE w.c.pending[CHOOSE i \in DOMAIN w.c.pending :
                                              w.c.pending[i].id = id]],
         c |-> [w.c EXCEPT !.pending = <<>>]]

\* session.rollback(): the pending objects are dropped
SessionRolledBack(w) == [w EXCEPT !.c.pending = <<>>]

\* A start that keeps the counters and the errors of the collector
CountersKept(c) == c

\* self._items_new = 0; self._items_updated = 0; self._errors = []
CountersReset(c) == [c EXCEPT !.items_new = 0, !.items_updated = 0, !.errors = <<>>]

\* CollectionRun(collector_type=..., status="running")
CollectionRun(collector_type) ==
    [collector_type |-> collector_type, status |-> "running", items_new |-> 0,
     items_updated |-> 0, errors_count |-> 0, error_messages |-> <<>>]

\* start_run
StartRunOn(w) ==
    LET added == [w EXCEPT !.c.runs = Append(@, CollectionRun(w.c.collector_type)),
                           !.c.run = Len(w.c.runs) + 1]
        committed == SessionCommitted(added)
    IN  [committed EXCEPT !.c = [CountersReset(committed.c) EXCEPT
                                    !.at_start = DOMAIN committed.contents]]

\* CollectionResult(...)
CollectionResult(run_id, c, status) ==
    [run_id |-> run_id, collector_type |-> c.collector_type, status |-> status,
     items_collected |-> c.items_new + c.items_updated,
     items_new |-> c.items_new, items_updated |-> c.items_updated,
     errors_count |-> Len(c.errors), error_messages |-> c.errors]

\* end_run: the world after it and the way it ends
EndRunOn(w, status) ==
    IF w.c.run = 0 THEN [w |-> w, res |-> Exc("ValueError")]
    ELSE LET row == [w.c.runs[w.c.run] EXCEPT
                        !.status = status,
                        !.items_new = w.c.items_new,
                        !.items_updated = w.c.items_updated,
                        !.errors_count = Len(w.c.errors),
                        !.error_messages = w.c.errors]
             set == [w EXCEPT !.c.runs[w.c.run] = row]
         IN  [w |-> SessionCommitted(set),
              res |-> Ok(CollectionResult(w.c.run, w.c, status))]

\* record_error
RecordErrorOn(w, error) == [w EXCEPT !.c.errors = Append(@, error)]

\* content_exists: a query on the rows of the database
ContentExists(w, text_hash) ==
    \E id \in DOMAIN w.contents : w.contents[id].text_hash = text_hash

\* add_content: the world after it and the way it ends
AddContentOn(w, text_hash) ==
    IF ContentExists(w, text_hash) THEN [w |-> w, res |-> Ok(FALSE)]
    ELSE [w |-> [w EXCEPT
                    !.c.pending = Append(@, CollectedContent(BurstNames[w.c.created + 1],
                                                             text_hash)),
                    !.c.created = @ + 1,
                    !.c.items_new = @ + 1],
          res |-> Ok(TRUE)]

\* The ways session.commit() ends
CommitOutcomes == {Raised, Returned(None)}

\* commit: on an exception the session is rolled back and the exception
\* raised again
CommitOn(w, outcome) ==
    IF outcome.raised THEN [w |-> SessionRolledBack(w), res |-> Exc("Exception")]
    ELSE [w |-> SessionCommitted(w), res |-> Ok(None)]

\* The loop over the entries of a feed or the messages of a channel, from
\* the k-th on: an entry whose hash exists is skipped, the others are added
RECURSIVE AddEntries(_, _, _, _)
AddEntries(w, entries, k, collected_count) ==
    IF k > Len(entries) THEN [w |-> w, collected_count |-> collected_count]
    ELSE IF ContentExists(w, entries[k])
         THEN AddEntries(w, entries, k + 1, collected_count)
         ELSE LET added == AddContentOn(w, entries[k])
              IN  AddEntries(added.w, entries, k + 1,
                             IF added.res.val THEN collected_count + 1
                             ELSE collected_count)

\* MediaCollector.collect_feed of a feed with a url: get_or_create_source
\* commits, the entries are added, the batch is committed; an exception is
\* recorded and the session rolled back
CollectFeedOn(w, feed) ==
    LET batch == AddEntries(SessionCommitted(w), feed.entries, 1, 0)
        committed == CommitOn(batch.w, feed.commit)
    IN  IF committed.res.exc = None
        THEN [w |-> committed.w, res |-> Ok(batch.collected_count)]
        ELSE [w |-> SessionRolledBack(RecordErrorOn(committed.w, "Error collecting feed")),
              res |-> Ok(batch.collected_count)]

\* collect_media_feeds and collect_factcheckers: the feeds one after another
RECURSIVE CollectFeeds(_, _, _)
CollectFeeds(w, feeds, k) ==
    IF k > Len(feeds) THEN w
    ELSE CollectFeeds(CollectFeedOn(w, feeds[k]).w, feeds, k + 1)

\* The status of a run by its errors
StatusOf(c) == IF c.errors = <<>> THEN "completed" ELSE "completed_with_errors"

\* MediaCollector.collect_all_sync; fatal: an exception leaves the
\* collection after the feeds
CollectAllSyncOn(w, feeds, fatal) ==
    LET collected == CollectFeeds(StartRunOn(w), feeds, 1)
        recorded == IF fatal THEN RecordErrorOn(collected, "Fatal error") ELSE collected
    IN  EndRunOn(recorded, StatusOf(recorded.c))

\* The ways the collection of a channel ends
ChannelOutcomes == {"collected", "ChannelPrivateError", "FloodWaitError", "Exception"}

\* TelegramCollector.collect_channel; the messages are those read before
\* the exception, if any
CollectChannelOn(w, channel) ==
    IF channel.outcome = "ChannelPrivateError"
    THEN [w |-> RecordErrorOn(w, "Channel is private"), res |-> Ok(0)]
    ELSE LET batch == AddEntries(SessionCommitted(w), channel.messages, 1, 0)
         IN  [w |-> IF channel.outcome = "collected" THEN SessionCommitted(batch.w)
                    ELSE IF channel.outcome = "FloodWaitError" THEN batch.w
                    ELSE SessionRolledBack(RecordErrorOn(batch.w, "Error collecting channel")),
              res |-> Ok(batch.collected_count)]

RECURSIVE CollectChannels(_, _, _)
CollectChannels(w, channels, k) ==
    IF k > Len(channels) THEN w
    ELSE CollectChannels(CollectChannelOn(w, channels[k]).w, channels, k + 1)

\* TelegramCollector.collect_all; connected: the client is connected or
\* connects
CollectAllOn(w, connected, channels) ==
    IF ~connected
    THEN [w |-> w,
          res |-> Ok([run_id |-> "", collector_type |-> w.c.collector_type,
                      status |-> "failed", items_collected |-> 0, items_new |-> 0,
                      items_updated |-> 0, errors_count |-> 0,
                      error_messages |-> <<"Failed to connect to Telegram">>])]
    ELSE LET collected == CollectChannels(StartRunOn(w), channels, 1)
         IN  EndRunOn(collected, StatusOf(collected.c))

\* A call on the collector: what it leaves in the store, the collector and ret
Collected(op, arg, out) ==
    /\ contents' = out.w.contents
    /\ collector' = out.w.c
    /\ ret' = Call(op, arg, out.res)
    /\ UNCHANGED <<sources, propagations, content_graph, source_graph, instances,
                   threads, pool>>

RunStatuses == {"completed", "failed"}

StartRun ==
    /\ Idle
    /\ Len(collector.runs) + 1 \in RunPlaces
    /\ Collected("start_run", EmptyDict, [w |-> StartRunOn(World), res |-> Ok(None)])

EndRun(status) ==
    /\ Idle
    /\ Collected("end_run", [status |-> status], EndRunOn(World, status))

RecordError(error) ==
    /\ Idle
    /\ Len(collector.errors) + 1 \in ErrorPlaces
    /\ Collected("record_error", [error |-> error],
                 [w |-> RecordErrorOn(World, error), res |-> Ok(None)])

AddContent(text_hash) ==
    /\ Idle
    /\ collector.created < MaxRows
    /\ Collected("add_content", [text_hash |-> text_hash], AddContentOn(World, text_hash))

Commit ==
    /\ Idle
    /\ \E outcome \in CommitOutcomes :
         Collected("commit", [outcome |-> outcome], CommitOn(World, outcome))

\* The entries of a feed and the messages of a channel, by their hashes
EntryChoices == {<<>>, <<"h1">>, <<"h1", "h1">>}

FeedChoices == [entries : EntryChoices, commit : CommitOutcomes]

\* get_entity raises for a private channel before a message is read
ChannelChoices ==
    {channel \in [messages : EntryChoices, outcome : ChannelOutcomes] :
        channel.outcome = "ChannelPrivateError" => channel.messages = <<>>}

\* The feeds of a configuration: none, one, or one and after it a feed of
\* one entry whose batch is committed
FeedSeqs ==
    {<<>>} \cup {<<feed>> : feed \in FeedChoices}
           \cup {<<feed, [entries |-> <<"h1">>, commit |-> Returned(None)]>> :
                    feed \in FeedChoices}

\* The channels of a configuration, likewise
ChannelSeqs ==
    {<<>>} \cup {<<channel>> : channel \in ChannelChoices}
           \cup {<<channel, [messages |-> <<"h1">>, outcome |-> "collected"]>> :
                    channel \in ChannelChoices}

RECURSIVE EntriesIn(_, _)
EntriesIn(batches, k) ==
    IF k > Len(batches) THEN 0
    ELSE (IF "entries" \in DOMAIN batches[k] THEN Len(batches[k].entries)
          ELSE Len(batches[k].messages)) + EntriesIn(batches, k + 1)

CollectFeed(feed) ==
    /\ Idle
    /\ collector.collector_type = "media"
    /\ collector.created + Len(feed.entries) <= MaxRows
    /\ Len(collector.errors) + 1 \in ErrorPlaces
    /\ Collected("collect_feed", [feed |-> feed], CollectFeedOn(World, feed))

CollectChannel(channel) ==
    /\ Idle
    /\ collector.collector_type = "telegram"
    /\ collector.created + Len(channel.messages) <= MaxRows
    /\ Len(collector.errors) + 1 \in ErrorPlaces
    /\ Collected("collect_channel", [channel |-> channel], CollectChannelOn(World, channel))

CollectAllSync(feeds, fatal) ==
    /\ Idle
    /\ collector.collector_type = "media"
    /\ Len(collector.runs) + 1 \in RunPlaces
    /\ collector.created + EntriesIn(feeds, 1) <= MaxRows
    /\ Collected("collect_all_sync", [feeds |-> feeds, fatal |-> fatal],
                 CollectAllSyncOn(World, feeds, fatal))

CollectAll(connected, channels) ==
    /\ Idle
    /\ collector.collector_type = "telegram"
    /\ Len(collector.runs) + 1 \in RunPlaces
    /\ collector.created + EntriesIn(channels, 1) <= MaxRows
    /\ Collected("collect_all", [connected |-> connected, channels |-> channels],
                 CollectAllOn(World, connected, channels))

ErrorChoices == {"Test error message"}

\* A store with no content and a new collector of one of the two types
InitCollect ==
    /\ sources = SourceRows({"s1"})
    /\ contents = EmptyDict
    /\ propagations = <<>>
    /\ content_graph = EmptyGraph
    /\ source_graph = EmptyGraph
    /\ ret = NoCall
    /\ instances = EmptyDict
    /\ threads = EmptyDict
    /\ \E collector_type \in {"media", "telegram"} : collector = NewCollector(collector_type)
    /\ pool = NoPool

NextCollect ==
    \/ StartRun
    \/ \E status \in RunStatuses : EndRun(status)
    \/ \E error \in ErrorChoices : RecordError(error)
    \/ \E text_hash \in TextHashes : AddContent(text_hash)
    \/ Commit
    \/ \E feed \in FeedChoices : CollectFeed(feed)
    \/ \E channel \in ChannelChoices : CollectChannel(channel)
    \/ \E feeds \in FeedSeqs, fatal \in BOOLEAN : CollectAllSync(feeds, fatal)
    \/ \E connected \in BOOLEAN, channels \in ChannelSeqs :
         CollectAll(connected, channels)
    \/ Return

SpecCollect == InitCollect /\ [][NextCollect]_vars

\* The text hashes of the content rows of the store, with their rows
RowsWithHash(text_hash) ==
    {id \in DOMAIN contents : contents[id].text_hash = text_hash}

\* C26: add_content adds an item only if no content with its text hash
\* exists: after any sequence of add_content calls and commits, several
\* items of one hash in one uncommitted batch included, the store holds no
\* two content rows with the same text_hash; add_content returns True
\* exactly for the items it has added, and returns False for an item whose
\* hash a row of the store has.
C26_NoTwoRowsWithTheSameHash ==
    /\ \A text_hash \in TextHashes : Cardinality(RowsWithHash(text_hash)) <= 1
    /\ ret.op = "add_content" =>
          IF ret.val
          THEN /\ collector.pending /= <<>>
               /\ collector.pending[Len(collector.pending)].text_hash = ret.arg.text_hash
               /\ collector.items_new >= 1
          ELSE RowsWithHash(ret.arg.text_hash) /= {}

\* C27: the CollectionResult of end_run has items_new equal to the number of
\* content rows persisted during the run, and items_collected equal to
\* items_new + items_updated; the items of a batch that failed and was
\* rolled back are not counted.
C27_ItemsNewIsWhatWasPersisted ==
    (ret.op \in {"end_run", "collect_all_sync", "collect_all"}
        /\ ret.exc = None /\ ret.val.status /= "failed" /\ collector.run /= 0) =>
        /\ ret.val.items_new = Cardinality(DOMAIN contents \ collector.at_start)
        /\ ret.val.items_collected = ret.val.items_new + ret.val.items_updated

\* The errors that the collection of the batches of a call records
ErrorsRecordedBy(op, arg) ==
    IF op = "collect_all_sync"
    THEN Cardinality({k \in DOMAIN arg.feeds : arg.feeds[k].commit.raised})
            + (IF arg.fatal THEN 1 ELSE 0)
    ELSE Cardinality({k \in DOMAIN arg.channels :
                         arg.channels[k].outcome \in {"ChannelPrivateError", "Exception"}})

\* The entries of the batches of a call
EntriesOf(op, arg) ==
    IF op = "collect_all_sync" THEN EntriesIn(arg.feeds, 1) ELSE EntriesIn(arg.channels, 1)

\* C28: end_run with no run started raises ValueError and changes nothing;
\* start_run resets the counters of new and updated items and the list of
\* errors, so that the result of a run has no counts and no errors of a run
\* before it on the same collector; a collect-all run ends with the status
\* "completed" exactly when no error was recorded during it, otherwise with
\* "completed_with_errors", and its errors_count is the number of the errors
\* recorded during it.
C28_RunTracking ==
    [][/\ (Idle /\ ret'.op = "end_run" /\ collector.run = 0) =>
             /\ ret'.exc = "ValueError"
             /\ UNCHANGED <<sources, contents, propagations, collector>>
       /\ (Idle /\ ret'.op = "end_run" /\ collector.run /= 0) => ret'.exc = None
       /\ (Idle /\ ret'.op = "start_run") =>
             /\ collector'.items_new = 0
             /\ collector'.items_updated = 0
             /\ collector'.errors = <<>>
             /\ collector'.run = Len(collector.runs) + 1
       /\ (Idle /\ ret'.op \in {"collect_all_sync", "collect_all"}
                /\ ret'.val.status /= "failed") =>
             LET recorded == ErrorsRecordedBy(ret'.op, ret'.arg)
             IN  /\ ret'.exc = None
                 /\ ret'.val.status = "completed" <=> recorded = 0
                 /\ ret'.val.status = "completed_with_errors" <=> recorded /= 0
                 /\ ret'.val.errors_count = recorded
                 /\ Len(ret'.val.error_messages) = recorded
                 /\ ret'.val.items_new <= EntriesOf(ret'.op, ret'.arg)
                 /\ ret'.val.items_updated = 0]_vars

\* The second run of a collector, with no entry and no error, after a first
\* run that counted an item and recorded an error: it ends "completed" with
\* no count and no error
C28_Witness ==
    /\ ret.op \in {"collect_all_sync", "collect_all"}
    /\ Len(collector.runs) = 2
    /\ collector.runs[1].status = "completed_with_errors"
    /\ collector.runs[1].errors_count > 0
    /\ collector.runs[1].items_new > 0
    /\ ret.val.status = "completed"
    /\ ret.val.errors_count = 0
    /\ ret.val.items_new = 0
    /\ collector.runs[2].status = "completed"

-----------------------------------------------------------------------------
(* The global thread pool (src/utils/async_helpers.py).  The functions     *)
(* take no lock: between the test of _executor and its assignment, and     *)
(* between the assignment and the return, another thread may run.  An      *)
(* executor is the number of its creation; 0 is None.                      *)

MaxExecutors == 3

\* _executor_max_workers = 4
DefaultMaxWorkers == 4

\* max_workers of the calls of set_thread_pool_size
PoolSizes == {2, 8}

\* The globals of the module after its import: _executor and
\* _executor_max_workers; and the executors made so far with their
\* max_workers, those made since the last shutdown, and those shut down
NewPool ==
    [executor |-> 0, max_workers |-> DefaultMaxWorkers, made |-> <<>>,
     live |-> {}, shut |-> {}]

\* A thread between two calls; got is the executor its last
\* get_thread_pool returned
PoolThread == [pc |-> "idle", got |-> 0]

\* The threads that have found _executor None and have not yet made theirs
Creating == {t \in DOMAIN threads : threads[t].pc = "create"}

PoolFrame ==
    UNCHANGED <<sources, contents, propagations, content_graph, source_graph, ret,
                instances, collector>>

\* get_thread_pool: if _executor is None
TestExecutor(t) ==
    /\ threads[t].pc = "idle"
    /\ pool.executor = 0 => Len(pool.made) + Cardinality(Creating) < MaxExecutors
    /\ threads' = [threads EXCEPT
                      ![t].pc = IF pool.executor = 0 THEN "create" ELSE "return"]
    /\ UNCHANGED pool
    /\ PoolFrame

\* get_thread_pool: _executor = ThreadPoolExecutor(max_workers=...)
CreateExecutor(t) ==
    /\ threads[t].pc = "create"
    /\ pool' = [pool EXCEPT
                   !.made = Append(@, pool.max_workers),
                   !.executor = Len(pool.made) + 1,
                   !.live = @ \cup {Len(pool.made) + 1}]
    /\ threads' = [threads EXCEPT ![t].pc = "return"]
    /\ PoolFrame

\* get_thread_pool: return _executor
ReturnExecutor(t) ==
    /\ threads[t].pc = "return"
    /\ threads' = [threads EXCEPT ![t].pc = "idle", ![t].got = pool.executor]
    /\ UNCHANGED pool
    /\ PoolFrame

\* set_thread_pool_size
SetThreadPoolSize(t, max_workers) ==
    /\ threads[t].pc = "idle"
    /\ pool' = IF pool.executor /= 0 THEN pool
               ELSE [pool EXCEPT !.max_workers = max_workers]
    /\ UNCHANGED threads
    /\ PoolFrame

\* shutdown_thread_pool
ShutdownThreadPool(t) ==
    /\ threads[t].pc = "idle"
    /\ pool' = IF pool.executor = 0 THEN pool
               ELSE [pool EXCEPT !.shut = @ \cup {pool.executor},
                                 !.executor = 0,
                                 !.live = {}]
    /\ UNCHANGED threads
    /\ PoolFrame

InitPool ==
    /\ sources = <<>>
    /\ contents = EmptyDict
    /\ propagations = <<>>
    /\ content_graph = EmptyGraph
    /\ source_graph = EmptyGraph
    /\ ret = NoCall
    /\ instances = EmptyDict
    /\ collector = NoCollector
    /\ threads = [t \in {"t1", "t2"} |-> PoolThread]
    /\ pool = NewPool

NextPool ==
    \/ \E t \in DOMAIN threads : TestExecutor(t)
    \/ \E t \in DOMAIN threads : CreateExecutor(t)
    \/ \E t \in DOMAIN threads : ReturnExecutor(t)
    \/ \E t \in DOMAIN threads, max_workers \in PoolSizes : SetThreadPoolSize(t, max_workers)
    \/ \E t \in DOMAIN threads : ShutdownThreadPool(t)

SpecPool == InitPool /\ [][NextPool]_vars

\* C29: the global thread pool is a singleton between two shutdowns: for
\* any interleaving of get_thread_pool calls of several threads at most one
\* executor is made, and every caller receives it; set_thread_pool_size
\* after the pool exists leaves the pool and the configured size as they
\* are; after shutdown_thread_pool the next get_thread_pool makes a new
\* executor.
C29_PoolIsASingleton ==
    /\ [](/\ Cardinality(pool.live) <= 1
          /\ pool.executor \notin pool.shut
          /\ \A t \in DOMAIN threads :
                threads[t].got \in pool.live => threads[t].got = pool.executor)
    /\ [][/\ \A t \in DOMAIN threads, max_workers \in PoolSizes :
                (SetThreadPoolSize(t, max_workers) /\ pool.executor /= 0) => pool' = pool
          /\ \A t \in DOMAIN threads :
                (CreateExecutor(t) /\ pool.shut /= {}) =>
                    /\ pool'.executor \notin pool.shut
                    /\ pool'.executor \notin DOMAIN pool.made
                    /\ pool'.executor \in DOMAIN pool'.made]_vars

====
